---- MODULE Spec2Model ----
(***************************************************************************)
(* Secret Santa: the pairing engine (src/utils/csvParser.ts) as it is      *)
(* driven by the CSV upload flow, the per-record cipher and the recovery   *)
(* engine (src/utils/encryption.ts), the participant app that drives them, *)
(* and the generator of the participants' secrets.                         *)
(***************************************************************************)
EXTENDS Integers, Sequences, FiniteSets, TLC

VARIABLES rows, participants, attempts, pc, result,
          data, passphrase, blob, candidate, decrypted, thrown, cpc,
          issued, assignments, artifact, encryptedFile, state, needsPassphrase,
          passphraseInput, calls, failures, tampered, apc,
          generated, tries, gpc,
          randomCalls, encryptions, localStorage, generatedFileData,
          legacyAssignments, response, loaded, csvContent, csvError,
          pending

pairVars == <<rows, participants, attempts, pc, result>>
cipherVars == <<data, passphrase, blob, candidate, decrypted, thrown, cpc>>
appVars == <<issued, assignments, artifact, encryptedFile, state, needsPassphrase,
             passphraseInput, calls, failures, tampered, apc>>
genVars == <<generated, tries, gpc>>
restVars == <<randomCalls, encryptions, localStorage, generatedFileData,
              legacyAssignments, response, loaded, csvContent, csvError>>
moreVars == <<restVars, pending>>
vars == <<rows, participants, attempts, pc, result,
          data, passphrase, blob, candidate, decrypted, thrown, cpc,
          issued, assignments, artifact, encryptedFile, state, needsPassphrase,
          passphraseInput, calls, failures, tampered, apc,
          generated, tries, gpc,
          randomCalls, encryptions, localStorage, generatedFileData,
          legacyAssignments, response, loaded, csvContent, csvError,
          pending>>

(***************************************************************************)
(* Bounds of the model.                                                    *)
(***************************************************************************)
\* Largest number of data rows of an uploaded CSV.
MaxRows == 3
\* Largest number of characters of a payload after its opening brace.
MaxTail == 2
\* Largest number of calls of encryptData in one session.
MaxEncryptions == 3
\* Largest number of failed recovery attempts of one session of the app
\* after which a further attempt is made.
MaxFailures == 1
\* The ceiling of the generator: the number of colliding draws of one run
\* at which it gives up.
MaxCollisions == 2

(***************************************************************************)
(* Program constants.                                                      *)
(***************************************************************************)
maxAttempts == 1000
IV_LENGTH == 12
SALT_LENGTH == 16
TAG_LENGTH == 16
PBKDF2_ITERATIONS == 100000
DIGEST_LENGTH == 32

(***************************************************************************)
(* Strings.  String.prototype.toLowerCase on the names the model uses.     *)
(***************************************************************************)
toLowerCase(s) ==
  CASE s = "A" -> "a"
    [] s = "B" -> "b"
    [] s = "C" -> "c"
    [] s = "Z" -> "z"
    [] OTHER -> s

(***************************************************************************)
(* The data rows of an uploaded CSV, after parseCSVLine and trim: the      *)
(* NAME and SO fields a row can carry.  The BIO of a row is free text; the *)
(* model gives the k-th row the text "bio" numbered k (BioOf).             *)
(***************************************************************************)
RowChoices ==
  { [name |-> "A", significantOther |-> "b"],
    [name |-> "a", significantOther |-> "Z"],
    [name |-> "B", significantOther |-> ""],
    [name |-> "B", significantOther |-> "A"],
    [name |-> "C", significantOther |-> ""],
    [name |-> "",  significantOther |-> ""] }

BioOf(k) == k

\* The uploads the model draws: up to MaxRows data rows, no row repeated.
CsvInputs ==
  { rs \in UNION { [1..n -> RowChoices] : n \in 0..MaxRows } :
      \A i, k \in DOMAIN rs : i # k => rs[i] # rs[k] }

\* interface Participant
Participant(row, k) ==
  [name |-> row.name, bio |-> BioOf(k), significantOther |-> row.significantOther]

(***************************************************************************)
(* parseCSV on a CSV with the header NAME,BIO,SO and rows of three fields: *)
(* the result is either the participant list or a thrown error.  A CSV     *)
(* without a data row has fewer than two lines; the first row with an      *)
(* empty name throws.                                                      *)
(***************************************************************************)
parseCSV(rs) ==
  IF Len(rs) < 1
    THEN [ok |-> FALSE, error |-> "CSV must have at least a header row and one data row"]
    ELSE IF \E k \in 1..Len(rs) : rs[k].name = ""
      THEN [ok |-> FALSE, error |-> "empty name field"]
      ELSE [ok |-> TRUE, value |-> [k \in 1..Len(rs) |-> Participant(rs[k], k)]]

(***************************************************************************)
(* generateSecretSantaAssignments                                          *)
(***************************************************************************)
\* if (participants.length < 2) throw
TooFewMut(ps) == Len(ps) < 1
TooFew(ps) == Len(ps) < 2

\* soMap: participants.forEach(p => if (p.significantOther) soMap.set(...)),
\* a later entry for the same lower-cased name replaces the earlier one.
RECURSIVE soMapUpTo(_, _)
soMapUpTo(ps, k) ==
  IF k = 0 THEN [x \in {} |-> ""]
  ELSE LET m == soMapUpTo(ps, k - 1)
           key == toLowerCase(ps[k].name)
           val == toLowerCase(ps[k].significantOther)
       IN IF ps[k].significantOther # ""
            THEN [x \in (DOMAIN m) \cup {key} |-> IF x = key THEN val ELSE m[x]]
            ELSE m

soMap(ps) == soMapUpTo(ps, Len(ps))

\* soMap.get(k) === v  (a missing key gives undefined, equal to no string)
GetIs(m, k, v) == k \in DOMAIN m /\ m[k] = v

\* The closure areSignificantOthers over the soMap m.
areSignificantOthers(m, name1, name2) ==
  LET name1Lower == toLowerCase(name1)
      name2Lower == toLowerCase(name2)
  IN GetIs(m, name1Lower, name2Lower) \/ GetIs(m, name2Lower, name1Lower)

\* The random draws of one shuffle: j = floor(random() * (i + 1)) for
\* i = n-1 .. 1 (here 1-based: j in 1..i for i = n .. 2).
RandomDraws(n) == { js \in [2..n -> 1..n] : \A i \in 2..n : js[i] <= i }

\* [recipients[i], recipients[j]] = [recipients[j], recipients[i]]
Swap(rec, i, j) == [rec EXCEPT ![i] = rec[j], ![j] = rec[i]]

\* for (let i = recipients.length - 1; i > 0; i--)
RECURSIVE ShuffleFromStopEarly(_, _, _)
ShuffleFromStopEarly(rec, i, js) ==
  IF i < 3 THEN rec ELSE ShuffleFromStopEarly(Swap(rec, i, js[i]), i - 1, js)
RECURSIVE ShuffleFrom(_, _, _)
ShuffleFrom(rec, i, js) ==
  IF i < 2 THEN rec ELSE ShuffleFrom(Swap(rec, i, js[i]), i - 1, js)

Shuffle(ps, js) == ShuffleFrom(ps, Len(ps), js)

\* The two checks of one giver/recipient pair, in the order of the code.
PairErrorMut(m, giver, recipient) ==
  IF areSignificantOthers(m, giver.name, recipient.name)
    THEN "Significant others cannot be assigned to each other"
    ELSE ""
PairError(m, giver, recipient) ==
  IF giver.name = recipient.name
    THEN "Person cannot be their own Secret Santa"
    ELSE IF areSignificantOthers(m, giver.name, recipient.name)
      THEN "Significant others cannot be assigned to each other"
      ELSE ""

\* generateValidAssignment(participants, areSignificantOthers): the list, or
\* the error of the first invalid pair.  m is the soMap of the closure, js
\* the random draws of the shuffle.
generateValidAssignmentShort(ps, m, js) ==
  LET givers == ps
      recipients == Shuffle(ps, js)
      bad == { i \in 1..(Len(givers) - 1) : PairError(m, givers[i], recipients[i]) # "" }
  IN IF bad # {}
       THEN LET first == CHOOSE i \in bad : \A k \in bad : i <= k
            IN [ok |-> FALSE, error |-> PairError(m, givers[first], recipients[first])]
       ELSE [ok |-> TRUE,
             value |-> [i \in 1..(Len(givers) - 1) |->
                          [giver |-> givers[i].name,
                           recipient |-> recipients[i].name,
                           recipientBio |-> recipients[i].bio]]]
generateValidAssignment(ps, m, js) ==
  LET givers == ps
      recipients == Shuffle(ps, js)
      bad == { i \in 1..Len(givers) : PairError(m, givers[i], recipients[i]) # "" }
  IN IF bad # {}
       THEN LET first == CHOOSE i \in bad : \A k \in bad : i <= k
            IN [ok |-> FALSE, error |-> PairError(m, givers[first], recipients[first])]
       ELSE [ok |-> TRUE,
             value |-> [i \in 1..Len(givers) |->
                          [giver |-> givers[i].name,
                           recipient |-> recipients[i].name,
                           recipientBio |-> recipients[i].bio]]]

\* while (attempts < maxAttempts)
LoopGuardMut(a) == a <= maxAttempts
LoopGuard(a) == a < maxAttempts

(***************************************************************************)
(* Bytes and strings.  A string is the sequence of its UTF-16 code units,  *)
(* a Uint8Array the sequence of its bytes.                                 *)
(***************************************************************************)
Min(a, b) == IF a < b THEN a ELSE b

\* F(v) with v computed once: what a const declaration does.
Once(v, F(_)) == CHOOSE y \in { F(x) : x \in {v} } : TRUE

\* Array.prototype.slice(from, to) with 0-based, half-open bounds.
Slice(s, from, to) == SubSeq(s, from + 1, Min(to, Len(s)))

\* TextEncoder.encode of one code unit of the Basic Multilingual Plane.
Utf8Of(c) ==
  IF c < 128 THEN <<c>>
  ELSE IF c < 2048 THEN <<192 + (c \div 64), 128 + (c % 64)>>
  ELSE <<224 + (c \div 4096), 128 + ((c \div 64) % 64), 128 + (c % 64)>>

\* The bytes of the code units lo..hi of a string, by halves.
RECURSIVE TextEncodeFrom(_, _, _)
TextEncodeFrom(str, lo, hi) ==
  IF lo > hi THEN <<>>
  ELSE IF lo = hi THEN Utf8Of(str[lo])
  ELSE TextEncodeFrom(str, lo, (lo + hi) \div 2)
       \o TextEncodeFrom(str, (lo + hi) \div 2 + 1, hi)

\* new TextEncoder().encode(str)
TextEncode(str) == Once(str, LAMBDA s : TextEncodeFrom(s, 1, Len(s)))

\* The least position from i on whose element is in the set, or the
\* position after the last.
FirstIn(seq, i, set) ==
  Once({ k \in i..Len(seq) : seq[k] \in set } \cup {Len(seq) + 1}, LAMBDA ks :
    CHOOSE k \in ks : \A m \in ks : k <= m)

IsCont(bytes, i) == i <= Len(bytes) /\ bytes[i] >= 128 /\ bytes[i] < 192

\* The UTF-8 decoder: a malformed byte gives U+FFFD.
RECURSIVE Utf8DecodeFrom(_, _)
Utf8DecodeFrom(bytes, i) ==
  IF i > Len(bytes) THEN <<>>
  ELSE LET b == bytes[i]
       IN IF b < 128
            THEN Once(FirstIn(bytes, i, 128..255), LAMBDA j :
                   SubSeq(bytes, i, j - 1) \o Utf8DecodeFrom(bytes, j))
          ELSE IF b >= 194 /\ b < 224 /\ IsCont(bytes, i + 1)
            THEN <<(b - 192) * 64 + (bytes[i + 1] - 128)>> \o Utf8DecodeFrom(bytes, i + 2)
          ELSE IF b >= 224 /\ b < 240 /\ IsCont(bytes, i + 1) /\ IsCont(bytes, i + 2)
            THEN <<(b - 224) * 4096 + (bytes[i + 1] - 128) * 64 + (bytes[i + 2] - 128)>>
                   \o Utf8DecodeFrom(bytes, i + 3)
          ELSE <<65533>> \o Utf8DecodeFrom(bytes, i + 1)

\* new TextDecoder().decode(bytes): ignoreBOM is false, a leading U+FEFF is
\* dropped.
TextDecode(bytes) ==
  Once(bytes, LAMBDA b :
    Once(Utf8DecodeFrom(b, 1), LAMBDA str :
      IF Len(str) > 0 /\ str[1] = 65279 THEN Tail(str) ELSE str))

(***************************************************************************)
(* Base64.  A base64 string is the sequence of its symbols: 0..63 for the  *)
(* alphabet, 64 for the padding character.                                 *)
(***************************************************************************)
\* The symbols of the groups lo..hi of three bytes, by halves; the last
\* group may have one or two bytes and is padded.
RECURSIVE btoaFrom(_, _, _)
btoaFrom(bytes, lo, hi) ==
  IF lo > hi THEN <<>>
  ELSE IF lo < hi
    THEN btoaFrom(bytes, lo, (lo + hi) \div 2)
         \o btoaFrom(bytes, (lo + hi) \div 2 + 1, hi)
  ELSE LET i == 3 * lo - 2
           left == Len(bytes) - i + 1
       IN IF left <= 0 THEN <<>>
          ELSE IF left = 1
            THEN <<bytes[i] \div 4, (bytes[i] % 4) * 16, 64, 64>>
          ELSE IF left = 2
            THEN <<bytes[i] \div 4, (bytes[i] % 4) * 16 + (bytes[i + 1] \div 16),
                   (bytes[i + 1] % 16) * 4, 64>>
          ELSE <<bytes[i] \div 4, (bytes[i] % 4) * 16 + (bytes[i + 1] \div 16),
                 (bytes[i + 1] % 16) * 4 + (bytes[i + 2] \div 64), bytes[i + 2] % 64>>

\* btoa(String.fromCharCode(...bytes))
btoa(bytes) == Once(bytes, LAMBDA b : btoaFrom(b, 1, (Len(b) + 2) \div 3))

\* atob drops up to two padding characters of a string whose length is a
\* multiple of four.
Unpad(b64) ==
  IF Len(b64) > 0 /\ Len(b64) % 4 = 0
    THEN IF b64[Len(b64)] = 64
           THEN IF Len(b64) > 1 /\ b64[Len(b64) - 1] = 64
                  THEN SubSeq(b64, 1, Len(b64) - 2)
                  ELSE SubSeq(b64, 1, Len(b64) - 1)
           ELSE b64
    ELSE b64

\* The bytes of the groups lo..hi of four symbols, by halves; the last
\* group may have two or three symbols.
RECURSIVE atobFrom(_, _, _)
atobFrom(sx, lo, hi) ==
  IF lo > hi THEN <<>>
  ELSE IF lo < hi
    THEN atobFrom(sx, lo, (lo + hi) \div 2)
         \o atobFrom(sx, (lo + hi) \div 2 + 1, hi)
  ELSE LET i == 4 * lo - 3
           left == Len(sx) - i + 1
       IN IF left <= 1 THEN <<>>
          ELSE IF left = 2
            THEN <<sx[i] * 4 + (sx[i + 1] \div 16)>>
          ELSE IF left = 3
            THEN <<sx[i] * 4 + (sx[i + 1] \div 16),
                   (sx[i + 1] % 16) * 16 + (sx[i + 2] \div 4)>>
          ELSE <<sx[i] * 4 + (sx[i + 1] \div 16),
                 (sx[i + 1] % 16) * 16 + (sx[i + 2] \div 4),
                 (sx[i + 2] % 4) * 64 + sx[i + 3]>>

\* atob(b64) followed by the map to char codes: the bytes, or the thrown
\* InvalidCharacterError.
atob(b64) ==
  Once(b64, LAMBDA s :
    Once(Unpad(s), LAMBDA sx :
      IF Len(sx) % 4 = 1 \/ \E i \in DOMAIN sx : sx[i] = 64
        THEN [ok |-> FALSE, error |-> "InvalidCharacterError"]
        ELSE [ok |-> TRUE, value |-> atobFrom(sx, 1, (Len(sx) + 3) \div 4)]))

(***************************************************************************)
(* The Web Crypto primitives, idealised: PBKDF2 and AES-GCM are replaced   *)
(* by small arithmetic stand-ins that keep their shape: the key is a       *)
(* function of password and salt, the ciphertext is the plaintext xor a    *)
(* key stream of key and IV, followed by a tag over key, IV and ciphertext *)
(* that decryption verifies.                                               *)
(***************************************************************************)
\* a * b modulo 65521, by halves of b.
MulMod(a, b) ==
  (((a * (b \div 256)) % 65521) * 256 + a * (b % 256)) % 65521

RECURSIVE Pow31(_)
Pow31(k) ==
  IF k = 0 THEN 1
  ELSE IF k % 2 = 1 THEN (31 * Pow31(k - 1)) % 65521
  ELSE Once(Pow31(k \div 2), LAMBDA h : MulMod(h, h))

\* The value that h := (h * 31 + bytes[j] + 1) % 65521 for j = lo, ..., hi
\* gives from h = 0, computed by halves of the range.
RECURSIVE MixRange(_, _, _)
MixRange(bytes, lo, hi) ==
  IF lo > hi THEN 0
  ELSE IF lo = hi THEN (bytes[lo] + 1) % 65521
  ELSE Once(<<MixRange(bytes, lo, (lo + hi) \div 2),
              MixRange(bytes, (lo + hi) \div 2 + 1, hi)>>,
            LAMBDA t : (MulMod(t[1], Pow31(hi - (lo + hi) \div 2)) + t[2]) % 65521)

\* The value that h := (h * 31 + bytes[j] + 1) % 65521 for j = i, ...,
\* Len(bytes) gives from h.
Mix(bytes, i, h) ==
  Once(<<bytes, h>>, LAMBDA p :
    (MulMod(p[2], Pow31(Len(p[1]) - i + 1)) + MixRange(p[1], i, Len(p[1])))
      % 65521)

RECURSIVE Xor(_, _, _)
Xor(a, b, bits) ==
  IF bits = 0 THEN 0
  ELSE (((a % 2) + (b % 2)) % 2) + 2 * Xor(a \div 2, b \div 2, bits - 1)

\* deriveKey(passphrase, salt): PBKDF2 over encoder.encode(passphrase)
deriveKeySaltOnly(pass, salt) ==
  Mix(salt, 1, PBKDF2_ITERATIONS % 65521)
deriveKey(pass, salt) ==
  Mix(salt, 1, Mix(TextEncode(pass), 1, PBKDF2_ITERATIONS % 65521))

KeyStream(key, iv, i) == (key + 17 * Mix(iv, 1, 3) + 13 * i) % 256

GcmTag(key, iv, ct) ==
  Once(Mix(ct, 1, (key + Mix(iv, 1, 5)) % 65521), LAMBDA h :
    [k \in 1..TAG_LENGTH |-> (h * k + k) % 256])

\* crypto.subtle.encrypt({name: "AES-GCM", iv}, key, plaintext)
subtleEncryptInClear(key, iv, pt) ==
  Once(<<key, iv, pt>>, LAMBDA a : a[3] \o GcmTag(a[1], a[2], a[3]))
subtleEncrypt(key, iv, pt) ==
  Once(<<key, iv, pt>>, LAMBDA a :
    Once([i \in 1..Len(a[3]) |->
            Once(KeyStream(a[1], a[2], i), LAMBDA ks : Xor(a[3][i], ks, 8))],
         LAMBDA ct : ct \o GcmTag(a[1], a[2], ct)))

\* crypto.subtle.decrypt({name: "AES-GCM", iv}, key, data): the plaintext,
\* or the OperationError of a failed authentication.
subtleDecrypt(key, iv, bytes) ==
  Once(<<key, iv, bytes>>, LAMBDA a :
    IF Len(a[3]) < TAG_LENGTH \/ Len(a[2]) = 0
      THEN [ok |-> FALSE, error |-> "OperationError"]
      ELSE LET ct == SubSeq(a[3], 1, Len(a[3]) - TAG_LENGTH)
               tag == SubSeq(a[3], Len(a[3]) - TAG_LENGTH + 1, Len(a[3]))
           IN IF tag # GcmTag(a[1], a[2], ct)
                THEN [ok |-> FALSE, error |-> "OperationError"]
                ELSE [ok |-> TRUE,
                      value |-> [i \in 1..Len(ct) |->
                                   Once(KeyStream(a[1], a[2], i),
                                        LAMBDA ks : Xor(ct[i], ks, 8))]])

\* generateSalt() and generateIV(): the values crypto.getRandomValues can
\* give that the model draws.
generateSalt == { [i \in 1..SALT_LENGTH |-> (seed * 37 + i * 11) % 256] : seed \in 0..1 }
generateIV == { [i \in 1..IV_LENGTH |-> (seed * 53 + i * 7) % 256] : seed \in 0..1 }

(***************************************************************************)
(* encryptData and decryptData                                             *)
(***************************************************************************)
\* encryptData(data, passphrase) with the salt and IV it generated.
encryptData(str, pass, salt, iv) ==
  LET key == deriveKey(pass, salt)
      encrypted == subtleEncrypt(key, iv, TextEncode(str))
      combined == salt \o iv \o encrypted
  IN btoa(combined)

\* const salt = combined.slice(0, 16)
SaltOfShort(combined) == Slice(combined, 0, IV_LENGTH)
SaltOf(combined) == Slice(combined, 0, 16)

\* const encrypted = combined.slice(16 + IV_LENGTH)
EncryptedOf(combined) == Slice(combined, 16 + IV_LENGTH, Len(combined))

\* const iv = combined.slice(16, 16 + IV_LENGTH)
IvOfShifted(combined) == Slice(combined, IV_LENGTH, IV_LENGTH + 16)
IvOf(combined) == Slice(combined, 16, 16 + IV_LENGTH)

\* The error of the catch block: a fixed text followed by the message of
\* the error that was caught.
DecryptError(errorMessage) ==
  <<"Failed to decrypt data. Check your passphrase. Details: ", errorMessage>>

\* decryptData(encryptedData, passphrase): the plaintext string, or the
\* error thrown by the catch block.
decryptData(encryptedData, pass) ==
  Once(atob(encryptedData), LAMBDA decoded :
    IF ~decoded.ok
      THEN [ok |-> FALSE, error |-> DecryptError(decoded.error)]
      ELSE LET combined == decoded.value
               salt == SaltOf(combined)
               iv == IvOf(combined)
               encrypted == EncryptedOf(combined)
               key == deriveKey(pass, salt)
           IN Once(subtleDecrypt(key, iv, encrypted), LAMBDA plain :
                IF ~plain.ok
                  THEN [ok |-> FALSE, error |-> DecryptError(plain.error)]
                  ELSE [ok |-> TRUE, value |-> TextDecode(plain.value)]))

(***************************************************************************)
(* The CSV upload flow: parseCSV, then generateSecretSantaAssignments      *)
(* (handleCSVUpload, lines 523-524).                                       *)
(***************************************************************************)
CipherIdle ==
  /\ data = <<>> /\ passphrase = <<>> /\ blob = <<>> /\ candidate = <<>>
  /\ decrypted = <<>> /\ thrown = <<>> /\ cpc = "idle"

AppIdle ==
  /\ issued = <<>> /\ assignments = <<>> /\ artifact = <<>>
  /\ encryptedFile = <<>> /\ state = <<>> /\ needsPassphrase = FALSE
  /\ passphraseInput = <<>> /\ calls = <<>> /\ failures = 0
  /\ tampered = FALSE /\ apc = "idle"

GenIdle ==
  /\ generated = <<>> /\ tries = 0 /\ gpc = "idle"

\* No encryption was counted.
SealIdle == randomCalls = 0 /\ encryptions = <<>>

\* No upload was stored.
StoreIdle == localStorage = <<>> /\ generatedFileData = <<>>

\* Nothing was fetched.
FetchIdle == response = <<>> /\ loaded = <<>>

\* No CSV text was parsed.
CsvIdle == csvContent = <<>> /\ csvError = <<>>

MoreIdle ==
  /\ SealIdle /\ StoreIdle /\ FetchIdle /\ CsvIdle
  /\ legacyAssignments = <<>>
  /\ pending = <<>>

Init ==
  /\ rows \in CsvInputs
  /\ participants = <<>>
  /\ attempts = 0
  /\ pc = "upload"
  /\ result = <<>>
  /\ CipherIdle /\ AppIdle /\ GenIdle /\ MoreIdle

\* const participants = parseCSV(csvContent)
ParseCSV ==
  /\ pc = "upload"
  /\ LET r == parseCSV(rows)
     IN IF r.ok
          THEN participants' = r.value /\ pc' = "parsed"
          ELSE participants' = participants /\ pc' = "parse_error"
  /\ UNCHANGED <<rows, attempts, result, cipherVars, appVars, genVars, moreVars>>

\* Entry of generateSecretSantaAssignments: the size check, then attempts = 0.
GenerateStart ==
  /\ pc = "parsed"
  /\ pc' = IF TooFew(participants) THEN "rejected" ELSE "loop"
  /\ attempts' = 0
  /\ UNCHANGED <<rows, participants, result, cipherVars, appVars, genVars, moreVars>>

\* One iteration of the while loop: attempts++, one shuffle-and-validate.
Attempt ==
  /\ pc = "loop"
  /\ LoopGuard(attempts)
  /\ attempts' = attempts + 1
  /\ LET m == soMap(participants)
     IN \E js \in RandomDraws(Len(participants)) :
       LET r == generateValidAssignment(participants, m, js)
       IN IF r.ok
            THEN result' = r.value /\ pc' = "returned"
            ELSE result' = result /\ pc' = "loop"
  /\ UNCHANGED <<rows, participants, cipherVars, appVars, genVars, moreVars>>

\* The loop ends without a return: throw "Could not generate valid ...".
Exhaust ==
  /\ pc = "loop"
  /\ ~LoopGuard(attempts)
  /\ pc' = "exhausted"
  /\ UNCHANGED <<rows, participants, attempts, result, cipherVars, appVars, genVars, moreVars>>

Next == ParseCSV \/ GenerateStart \/ Attempt \/ Exhaust

Spec == Init /\ [][Next]_vars

\* The uploads under which termination is verified: no data row, one
\* participant, a feasible pair, a couple, and two lists of three.
LiveInputs ==
  { <<>>,
    <<[name |-> "C", significantOther |-> ""]>>,
    <<[name |-> "B", significantOther |-> ""], [name |-> "C", significantOther |-> ""]>>,
    <<[name |-> "A", significantOther |-> "b"], [name |-> "B", significantOther |-> "A"]>>,
    <<[name |-> "A", significantOther |-> "b"], [name |-> "a", significantOther |-> "Z"],
      [name |-> "B", significantOther |-> ""]>>,
    <<[name |-> "a", significantOther |-> "Z"], [name |-> "B", significantOther |-> ""],
      [name |-> "C", significantOther |-> ""]>> }

LiveInit ==
  /\ rows \in LiveInputs
  /\ participants = <<>>
  /\ attempts = 0
  /\ pc = "upload"
  /\ result = <<>>
  /\ CipherIdle /\ AppIdle /\ GenIdle /\ MoreIdle

\* The upload flow is sequential code: a step that can be taken is taken.
FairSpec == LiveInit /\ [][Next]_vars /\ WF_vars(Next)

(***************************************************************************)
(* Properties of the pairing engine.                                       *)
(***************************************************************************)
Returned == pc = "returned"
InPairing == pc \in {"loop", "returned", "exhausted"}
Ended == pc \in {"parse_error", "rejected", "returned", "exhausted"}

\* Names pairwise distinct as strings.
DistinctNames(ps) ==
  \A i, k \in DOMAIN ps : i # k => ps[i].name # ps[k].name

\* Names pairwise distinct without regard to letter case.
UniqueNames(ps) ==
  \A i, k \in DOMAIN ps : i # k => toLowerCase(ps[i].name) # toLowerCase(ps[k].name)

\* Participant p names q as significant other, in either letter case.
Names(p, qname) ==
  p.significantOther # "" /\ toLowerCase(p.significantOther) = toLowerCase(qname)

\* Every significant other named is a participant of the list.
KnownSOs(ps) ==
  \A k \in DOMAIN ps :
    ps[k].significantOther # "" => \E j \in DOMAIN ps : Names(ps[k], ps[j].name)

\* The declared constraints on one giver/recipient pair.
Allowed(p, q) ==
  p.name # q.name /\ ~Names(p, q.name) /\ ~Names(q, p.name)

Perms(n) == { f \in [1..n -> 1..n] : \A i, k \in 1..n : i # k => f[i] # f[k] }

\* The declared exclusions admit at least one valid permutation.
Feasible(ps) ==
  \E f \in Perms(Len(ps)) : \A i \in DOMAIN ps : Allowed(ps[i], ps[f[i]])

\* C1: a list returned for two or more participants with pairwise-distinct
\* names has every participant name exactly once as giver and exactly once
\* as recipient.
C1_Permutation ==
  (Returned /\ Len(participants) >= 2 /\ DistinctNames(participants)) =>
    /\ Len(result) = Len(participants)
    /\ \A k \in DOMAIN participants :
         /\ Cardinality({ i \in DOMAIN result : result[i].giver = participants[k].name }) = 1
         /\ Cardinality({ i \in DOMAIN result : result[i].recipient = participants[k].name }) = 1

C1_Witness ==
  Returned /\ Len(participants) = 3 /\ DistinctNames(participants)

\* C2: no assignment of a returned list has its giver equal to its recipient.
C2_NoSelfPair ==
  Returned => \A i \in DOMAIN result : result[i].giver # result[i].recipient

C2_Witness ==
  Returned /\ Len(result) >= 2 /\ attempts > 1

\* C3: when a participant A names B as significant other (in either letter
\* case), no returned list contains A->B or B->A.
C3_SymmetricExclusion ==
  Returned =>
    \A k \in DOMAIN participants : \A i \in DOMAIN result :
      /\ ~(result[i].giver = participants[k].name
             /\ Names(participants[k], result[i].recipient))
      /\ ~(result[i].recipient = participants[k].name
             /\ Names(participants[k], result[i].giver))

\* A valid participant list: unique names, known significant others.
ValidList(ps) == UniqueNames(ps) /\ KnownSOs(ps)

C5_Terminates ==
  [](attempts <= maxAttempts) /\ <>Ended

C5_Witness ==
  Returned /\ attempts = maxAttempts

\* C6: when the exclusions admit no valid permutation the call never
\* returns a list, and it throws the retries-exhausted error after exactly
\* 1000 attempts.
C6_InfeasibleThrows ==
  (Len(participants) >= 2 /\ ~Feasible(participants)) =>
    /\ ~Returned
    /\ pc = "exhausted" => attempts = maxAttempts

\* C7: a list of fewer than two participants is rejected before any
\* shuffle attempt.
C7_TooFewRejected ==
  Len(participants) < 2 =>
    /\ pc \in {"upload", "parse_error", "parsed", "rejected"}
    /\ attempts = 0
    /\ result = <<>>

C7_Witness ==
  pc = "rejected" /\ Len(participants) = 1

\* C8: a list that names a significant other who is not a participant is
\* rejected, it never reaches the pairing loop.
C8_UnknownSORejected ==
  InPairing => KnownSOs(participants)

\* C9: a list with two rows of the same name (without regard to letter
\* case) is rejected, it never reaches the pairing loop.
C9_DuplicateNamesRejected ==
  InPairing => UniqueNames(participants)

(***************************************************************************)
(* The per-record cipher: a payload is encrypted under a secret and the    *)
(* blob is decrypted with a candidate secret.                              *)
(***************************************************************************)
\* Characters of a payload after the opening brace: A, e-acute, U+FEFF.
PayloadChars == {65, 233, 65279}

\* Assignment payloads are JSON texts (JSON.stringify of an assignment):
\* they open with a brace.
Payloads ==
  { <<123>> \o t : t \in UNION { [1..n -> PayloadChars] : n \in 0..MaxTail } }

\* The secrets: "s", "t", "s" followed by e-acute.
Secrets == { <<115>>, <<116>>, <<115, 233>> }

PairingIdle ==
  /\ rows = <<>> /\ participants = <<>> /\ attempts = 0 /\ pc = "idle"
  /\ result = <<>>

\* Damaged inputs of decryptData made from a blob: cut short after 40
\* symbols (28 bytes of salt and IV, 2 bytes of data), a character outside
\* the base64 alphabet in first place, one bit of the first ciphertext byte
\* changed.
Truncated(b64) == SubSeq(b64, 1, 40)
NotBase64(b64) == [b64 EXCEPT ![1] = 64]
BitFlipped(b64) == [b64 EXCEPT ![60] = IF @ % 2 = 0 THEN @ + 1 ELSE @ - 1]
Damaged(b64) == { Truncated(b64), NotBase64(b64), BitFlipped(b64) }

CipherInit ==
  /\ data \in Payloads
  /\ passphrase \in Secrets
  /\ blob = <<>>
  /\ candidate = <<>>
  /\ decrypted = <<>>
  /\ thrown = <<>>
  /\ cpc = "plain"
  /\ PairingIdle /\ AppIdle /\ GenIdle /\ MoreIdle

\* encryptData(data, passphrase)
EncryptData ==
  /\ cpc = "plain"
  /\ \E salt \in generateSalt : \E iv \in generateIV :
       blob' = encryptData(data, passphrase, salt, iv)
  /\ cpc' = "encrypted"
  /\ UNCHANGED <<data, passphrase, candidate, decrypted, thrown, pairVars,
                 appVars, genVars, moreVars>>

\* decryptData(blob, candidate)
DecryptData ==
  /\ cpc = "encrypted"
  /\ \E c \in Secrets :
       /\ candidate' = c
       /\ LET r == decryptData(blob, c)
          IN IF r.ok
               THEN decrypted' = r.value /\ thrown' = thrown
                    /\ cpc' = "decrypted"
               ELSE decrypted' = decrypted /\ thrown' = r.error
                    /\ cpc' = "decrypt_failed"
  /\ UNCHANGED <<data, passphrase, blob, pairVars, appVars, genVars, moreVars>>

\* decryptData(d, candidate) for a damaged copy d of the blob
DecryptDamaged ==
  /\ cpc = "encrypted"
  /\ \E c \in Secrets : \E d \in Damaged(blob) :
       /\ candidate' = c
       /\ blob' = d
       /\ LET r == decryptData(d, c)
          IN IF r.ok
               THEN decrypted' = r.value /\ thrown' = thrown
                    /\ cpc' = "damaged_decrypted"
               ELSE decrypted' = decrypted /\ thrown' = r.error
                    /\ cpc' = "damaged_failed"
  /\ UNCHANGED <<data, passphrase, pairVars, appVars, genVars, moreVars>>

CipherNext == EncryptData \/ DecryptData \/ DecryptDamaged

CipherSpec == CipherInit /\ [][CipherNext]_vars

\* C10: decrypting the blob of encryptData(payload, secret) with the same
\* secret returns exactly the payload.
C10_RoundTrip ==
  (cpc \in {"decrypted", "decrypt_failed"} /\ candidate = passphrase) =>
    (cpc = "decrypted" /\ decrypted = data)

C10_Witness ==
  /\ cpc = "decrypted" /\ candidate = passphrase /\ decrypted = data
  /\ \E i \in DOMAIN data : data[i] = 233

\* C11: decrypting the blob of encryptData(payload, A) with a secret B
\* other than A throws, no plaintext is returned.
C11_WrongSecretFails ==
  (cpc \in {"decrypted", "decrypt_failed"} /\ candidate # passphrase) =>
    (cpc = "decrypt_failed" /\ decrypted = <<>> /\ thrown # <<>>)

C11_Witness ==
  /\ cpc = "decrypt_failed" /\ candidate # passphrase
  /\ candidate = <<115, 233>> /\ passphrase = <<115>>

\* C12: every failure of decryptData, whether the secret is wrong or the
\* input is damaged, throws one and the same error.
C12_SingleGenericFailure ==
  cpc \in {"decrypt_failed", "damaged_failed"} =>
    thrown = DecryptError("OperationError")

(***************************************************************************)
(* The lookup key: hashPassphrase.  SHA-256 is idealised like the cipher:  *)
(* a digest of DIGEST_LENGTH bytes computed from the UTF-8 of the secret.  *)
(***************************************************************************)
\* crypto.subtle.digest("SHA-256", data)
subtleDigest(bytes) ==
  Once(Mix(bytes, 1, 7), LAMBDA h :
    [k \in 1..DIGEST_LENGTH |-> (h * k + (h \div 256) + 7 * k) % 256])

HexDigit(d) == IF d < 10 THEN 48 + d ELSE 87 + d

\* b.toString(16)
toString16(b) ==
  IF b < 16 THEN <<HexDigit(b)>> ELSE <<HexDigit(b \div 16), HexDigit(b % 16)>>

\* s.padStart(2, "0")
padStart2(s) == IF Len(s) < 2 THEN <<48>> \o s ELSE s

\* The digits of the bytes lo..hi, by halves.
RECURSIVE HexJoin(_, _, _)
HexJoin(bytes, lo, hi) ==
  IF lo > hi THEN <<>>
  ELSE IF lo = hi THEN padStart2(toString16(bytes[lo]))
  ELSE HexJoin(bytes, lo, (lo + hi) \div 2)
       \o HexJoin(bytes, (lo + hi) \div 2 + 1, hi)

\* hashPassphrase(passphrase): the digest in lower-case hexadecimal
hashPassphrase(pass) ==
  Once(subtleDigest(TextEncode(pass)), LAMBDA hashArray :
    HexJoin(hashArray, 1, Len(hashArray)))

(***************************************************************************)
(* JSON texts of assignments.  Strings are sequences of UTF-16 code units; *)
(* an object is the sequence of its members in the order of the text.      *)
(***************************************************************************)
\* The property names of an assignment: giver, recipient, recipientBio.
KeyGiver == <<103, 105, 118, 101, 114>>
KeyRecipient == <<114, 101, 99, 105, 112, 105, 101, 110, 116>>
KeyRecipientBio == KeyRecipient \o <<66, 105, 111>>

\* The white space of the texts: the tab, the line feed, the carriage
\* return and the space.
WhiteSpace == {9, 10, 13, 32}

RECURSIVE SkipSpaces(_, _)
SkipSpaces(t, i) ==
  IF i <= Len(t) /\ t[i] \in WhiteSpace THEN SkipSpaces(t, i + 1) ELSE i

\* The characters of a string literal from position j on, up to the closing
\* quote; the escapes are those of a quote, a backslash and a slash.
RECURSIVE ReadChars(_, _, _)
ReadChars(t, j, acc) ==
  IF j > Len(t) THEN [ok |-> FALSE]
  ELSE IF t[j] = 34 THEN [ok |-> TRUE, value |-> acc, next |-> j + 1]
  ELSE IF t[j] = 92
    THEN IF j + 1 <= Len(t) /\ t[j + 1] \in {34, 92, 47}
           THEN ReadChars(t, j + 2, Append(acc, t[j + 1]))
           ELSE [ok |-> FALSE]
  ELSE IF t[j] < 32 THEN [ok |-> FALSE]
  ELSE Once(FirstIn(t, j, (0..31) \cup {34, 92}), LAMBDA e :
         ReadChars(t, e, acc \o SubSeq(t, j, e - 1)))

ReadString(t, i) ==
  IF i <= Len(t) /\ t[i] = 34 THEN ReadChars(t, i + 1, <<>>) ELSE [ok |-> FALSE]

\* The members of an object from position i on, up to the closing brace.
RECURSIVE ReadMembers(_, _, _)
ReadMembers(t, i, obj) ==
  Once(ReadString(t, SkipSpaces(t, i)), LAMBDA k :
    IF ~k.ok THEN [ok |-> FALSE]
    ELSE LET c == SkipSpaces(t, k.next)
         IN IF c > Len(t) \/ t[c] # 58 THEN [ok |-> FALSE]
            ELSE Once(ReadString(t, SkipSpaces(t, c + 1)), LAMBDA v :
                   IF ~v.ok THEN [ok |-> FALSE]
                   ELSE Once(<<SkipSpaces(t, v.next),
                               Append(obj, <<k.value, v.value>>)>>,
                             LAMBDA eo :
                               IF eo[1] > Len(t) THEN [ok |-> FALSE]
                               ELSE IF t[eo[1]] = 44
                                 THEN ReadMembers(t, eo[1] + 1, eo[2])
                               ELSE IF t[eo[1]] = 125
                                 THEN [ok |-> TRUE, value |-> eo[2],
                                       next |-> eo[1] + 1]
                               ELSE [ok |-> FALSE])))

\* JSON.parse(text) for the texts of objects whose values are strings: the
\* object, or the SyntaxError.
JSONparse(text) ==
  Once(text, LAMBDA t :
    LET i == SkipSpaces(t, 1)
    IN IF i > Len(t) \/ t[i] # 123 THEN [ok |-> FALSE, error |-> "SyntaxError"]
       ELSE LET j == SkipSpaces(t, i + 1)
            IN Once(IF j <= Len(t) /\ t[j] = 125
                      THEN [ok |-> TRUE, value |-> <<>>, next |-> j + 1]
                      ELSE ReadMembers(t, i + 1, <<>>),
                    LAMBDA r :
                      IF r.ok /\ SkipSpaces(t, r.next) = Len(t) + 1
                        THEN [ok |-> TRUE, value |-> r.value]
                        ELSE [ok |-> FALSE, error |-> "SyntaxError"]))

\* obj[key]: the value of the last member of that name, or undefined.
RECURSIVE GetFrom(_, _, _)
GetFrom(obj, key, i) ==
  IF i = 0 THEN [defined |-> FALSE]
  ELSE IF obj[i][1] = key THEN [defined |-> TRUE, value |-> obj[i][2]]
  ELSE GetFrom(obj, key, i - 1)

Get(obj, key) == GetFrom(obj, key, Len(obj))

\* !x for a property that is a string or undefined
Falsy(x) == ~x.defined \/ x.value = <<>>

\* The error of the catch block of parseIndividualAssignment.
ParseError(errorMessage) ==
  <<"Failed to parse individual assignment: ">> \o errorMessage

\* parseIndividualAssignment(data): the assignment, or the error thrown.
parseIndividualAssignmentBioFalsy(str) ==
  Once(JSONparse(str), LAMBDA parsed :
    IF ~parsed.ok
      THEN [ok |-> FALSE, error |-> ParseError(<<parsed.error>>)]
      ELSE LET assignment == parsed.value
           IN IF \/ Falsy(Get(assignment, KeyGiver))
                 \/ Falsy(Get(assignment, KeyRecipient))
                 \/ Falsy(Get(assignment, KeyRecipientBio))
                THEN [ok |-> FALSE,
                      error |-> ParseError(<<"Invalid assignment format: missing required fields">>)]
                ELSE [ok |-> TRUE,
                      value |-> [giver |-> Get(assignment, KeyGiver).value,
                                 recipient |-> Get(assignment, KeyRecipient).value,
                                 recipientBio |-> Get(assignment, KeyRecipientBio).value]])
parseIndividualAssignment(str) ==
  Once(JSONparse(str), LAMBDA parsed :
    IF ~parsed.ok
      THEN [ok |-> FALSE, error |-> ParseError(<<parsed.error>>)]
      ELSE LET assignment == parsed.value
           IN IF \/ Falsy(Get(assignment, KeyGiver))
                 \/ Falsy(Get(assignment, KeyRecipient))
                 \/ ~Get(assignment, KeyRecipientBio).defined
                THEN [ok |-> FALSE,
                      error |-> ParseError(<<"Invalid assignment format: missing required fields">>)]
                ELSE [ok |-> TRUE,
                      value |-> [giver |-> Get(assignment, KeyGiver).value,
                                 recipient |-> Get(assignment, KeyRecipient).value,
                                 recipientBio |-> Get(assignment, KeyRecipientBio).value]])

(***************************************************************************)
(* The artifact: one record per participant, keyed by the digest of the    *)
(* participant's secret, holding the participant's assignment encrypted    *)
(* under that secret.                                                      *)
(***************************************************************************)
\* The characters lo..hi of a string with a backslash before each quote
\* and backslash, by halves.
RECURSIVE EscapeRange(_, _, _)
EscapeRange(str, lo, hi) ==
  IF lo > hi THEN <<>>
  ELSE IF lo = hi
    THEN (IF str[lo] \in {34, 92} THEN <<92, str[lo]>> ELSE <<str[lo]>>)
  ELSE EscapeRange(str, lo, (lo + hi) \div 2)
       \o EscapeRange(str, (lo + hi) \div 2 + 1, hi)

EscapeFrom(str, i) == EscapeRange(str, i, Len(str))

\* The JSON string literal of a string.
jsonString(str) == <<34>> \o EscapeFrom(str, 1) \o <<34>>

\* The serialized assignment: a JSON object of giver, recipient and
\* recipientBio.
serializeAssignment(a) ==
  <<123>> \o jsonString(KeyGiver) \o <<58, 32>> \o jsonString(a.giver)
  \o <<44, 32>> \o jsonString(KeyRecipient) \o <<58, 32>> \o jsonString(a.recipient)
  \o <<44, 32>> \o jsonString(KeyRecipientBio) \o <<58, 32>>
  \o jsonString(a.recipientBio) \o <<125>>

\* The record of one participant: lookup key and encrypted blob.
buildRecord(a, secret, salt, iv) ==
  [lookupKey |-> hashPassphrase(secret),
   ciphertext |-> encryptData(serializeAssignment(a), secret, salt, iv)]

\* The salt and IV that the encryption of one record draws: of the four
\* pairs of generateSalt and generateIV the model draws two.
SaltAndIV ==
  { d \in generateSalt \X generateIV : d[1][1] % 2 = d[2][1] % 2 }

\* The format version of the per-participant artifact: "2.0".
VERSION == <<50, 46, 48>>

(***************************************************************************)
(* The recovery engine: findAndDecryptAssignment.                          *)
(***************************************************************************)
\* encryptedAssignments[passphraseHash]
Lookup(encryptedAssignments, passphraseHash) ==
  IF passphraseHash \in DOMAIN encryptedAssignments
    THEN [defined |-> TRUE, value |-> encryptedAssignments[passphraseHash]]
    ELSE [defined |-> FALSE]

\* The error of the catch block of findAndDecryptAssignment.
FindError(errorMessage) == <<"Failed to decrypt assignment: ">> \o errorMessage

\* findAndDecryptAssignment(encryptedAssignments, passphrase): null, the
\* decrypted text or the error thrown, with the number of calls of
\* decryptData it made.
findAndDecryptAssignmentNoNullCheck(encryptedAssignments, pass) ==
  LET passphraseHash == hashPassphrase(pass)
      encryptedAssignment == Lookup(encryptedAssignments, passphraseHash)
  IN Once(decryptData(IF encryptedAssignment.defined
                            THEN encryptedAssignment.value ELSE <<>>, pass),
          LAMBDA r :
            IF r.ok
              THEN [ok |-> TRUE, isNull |-> FALSE, value |-> r.value,
                    decryptCalls |-> 1]
              ELSE [ok |-> FALSE, error |-> FindError(r.error),
                    decryptCalls |-> 1])
findAndDecryptAssignment(encryptedAssignments, pass) ==
  LET passphraseHash == hashPassphrase(pass)
      encryptedAssignment == Lookup(encryptedAssignments, passphraseHash)
  IN IF Falsy(encryptedAssignment)
       THEN [ok |-> TRUE, isNull |-> TRUE, decryptCalls |-> 0]
       ELSE Once(decryptData(encryptedAssignment.value, pass), LAMBDA r :
              IF r.ok
                THEN [ok |-> TRUE, isNull |-> FALSE, value |-> r.value,
                      decryptCalls |-> 1]
                ELSE [ok |-> FALSE, error |-> FindError(r.error),
                      decryptCalls |-> 1])

\* The mapping passed to findAndDecryptAssignment as it is after the call:
\* the function reads it and assigns to none of its properties.
assignmentsAfterLookupConsumed(encryptedAssignments, pass) ==
  [k \in DOMAIN encryptedAssignments \ {hashPassphrase(pass)} |->
     encryptedAssignments[k]]
assignmentsAfterLookup(encryptedAssignments, pass) == encryptedAssignments

(***************************************************************************)
(* The participant app: loadExistingData on mount, then the passphrase     *)
(* prompt and handlePassphraseSubmit.                                      *)
(***************************************************************************)
Null == [isNull |-> TRUE]

\* String.prototype.trim
RECURSIVE trimStart(_)
trimStart(str) ==
  IF str # <<>> /\ Head(str) \in WhiteSpace THEN trimStart(Tail(str)) ELSE str

RECURSIVE trimEnd(_)
trimEnd(str) ==
  IF str # <<>> /\ str[Len(str)] \in WhiteSpace
    THEN trimEnd(SubSeq(str, 1, Len(str) - 1)) ELSE str

trim(str) == trimEnd(trimStart(str))

\* The messages of the app.
NoMessage == <<>>
NoDataError ==
  <<"No Secret Santa data found. Contact your organizer to set up the assignments.">>
EnterPassphraseError == <<"Please enter a passphrase">>
NoEncryptedDataError == <<"No encrypted data available">>
NotFoundError ==
  <<"No assignment found for this passphrase. Please check your passphrase or contact your organizer.">>
SubmitError(errorMessage) ==
  <<"Failed to decrypt data: ">> \o errorMessage
  \o <<". Please check your passphrase.">>
FoundMessage == <<"Assignment found successfully!">>

\* The participants' names (A, B, e-acute) and bios (none, 2.0, a quote
\* followed by a backslash).
PersonNames == << <<65>>, <<66>>, <<233>> >>
PersonBios == << <<>>, <<50, 46, 48>>, <<34, 92>> >>

\* The lists of assignments the pairing can give for three participants
\* without exclusions: the two cycles.
AssignmentLists ==
  { [i \in 1..3 |-> [giver |-> PersonNames[i],
                     recipient |-> PersonNames[perm[i]],
                     recipientBio |-> PersonBios[perm[i]]]] :
      perm \in { <<2, 3, 1>>, <<3, 1, 2>> } }

\* The secrets handed to the three participants, pairwise distinct: the
\* three secrets in their rotations.
IssuedLists ==
  { [i \in 1..3 |-> << <<115>>, <<116>>, <<115, 233>> >>[((i + r) % 3) + 1]] :
      r \in 0..2 }

\* What a user may type: an issued secret, the secret "u" that is issued to
\* nobody, an issued secret after a space, a space.
Typed == Secrets \cup { <<117>>, <<32, 115>>, <<32>> }

\* The state before the build, but for the secrets.
AppStart ==
  /\ assignments \in AssignmentLists
  /\ artifact = [assignments |-> <<>>, timestamp |-> 1, version |-> VERSION]
  /\ encryptedFile = Null
  /\ state = [assignment |-> Null, isDataLoaded |-> FALSE, loading |-> FALSE,
              error |-> NoMessage, success |-> NoMessage]
  /\ needsPassphrase = FALSE
  /\ passphraseInput = <<>>
  /\ calls = {}
  /\ failures = 0
  /\ tampered = FALSE
  /\ apc = "build"
  /\ PairingIdle /\ GenIdle /\ MoreIdle
  /\ data = <<>> /\ passphrase = <<>> /\ blob = <<>> /\ candidate = <<>>
  /\ decrypted = <<>> /\ thrown = <<>> /\ cpc = "idle"

AppInit == issued \in IssuedLists /\ AppStart

\* The check of the builder before it stores a record: the lookup key is
\* the key of a record stored before.
KeyTakenNever(records, lookupKey) == FALSE
KeyTaken(records, lookupKey) == lookupKey \in DOMAIN records

\* The builder adds the record of the next participant.
BuildRecord ==
  /\ apc = "build"
  /\ LET k == Cardinality(DOMAIN artifact.assignments) + 1
     IN /\ k <= Len(issued)
        /\ \E d \in SaltAndIV :
             \E r \in {buildRecord(assignments[k], issued[k], d[1], d[2])} :
                /\ ~KeyTaken(artifact.assignments, r.lookupKey)
                /\ artifact' = [artifact EXCEPT !.assignments =
                                  (r.lookupKey :> r.ciphertext) @@ @]
        /\ apc' = IF k = Len(issued) THEN "published" ELSE "build"
  /\ UNCHANGED <<issued, assignments, encryptedFile, state, needsPassphrase,
                 passphraseInput, calls, failures, tampered, pairVars,
                 cipherVars, genVars, moreVars>>

\* The published file is damaged before the app fetches it: the blob of
\* the first participant's record is replaced by a damaged copy.
DamageRecord ==
  /\ apc = "published" /\ ~tampered
  /\ LET k == hashPassphrase(issued[1])
     IN \E d \in Damaged(artifact.assignments[k]) :
          artifact' = [artifact EXCEPT !.assignments[k] = d]
  /\ tampered' = TRUE
  /\ UNCHANGED <<issued, assignments, encryptedFile, state, needsPassphrase,
                 passphraseInput, calls, failures, apc, pairVars, cipherVars,
                 genVars, moreVars>>

\* The blobs of the first two participants' records change places.
SwapRecords ==
  /\ apc = "published" /\ ~tampered
  /\ LET k1 == hashPassphrase(issued[1])
         k2 == hashPassphrase(issued[2])
     IN artifact' = [artifact EXCEPT
                       !.assignments[k1] = artifact.assignments[k2],
                       !.assignments[k2] = artifact.assignments[k1]]
  /\ tampered' = TRUE
  /\ UNCHANGED <<issued, assignments, encryptedFile, state, needsPassphrase,
                 passphraseInput, calls, failures, apc, pairVars, cipherVars,
                 genVars, moreVars>>

\* loadExistingData() up to its await: loading is set, the messages are
\* cleared.
loadExistingData ==
  /\ apc = "published"
  /\ state' = [state EXCEPT !.loading = TRUE, !.error = NoMessage,
                            !.success = NoMessage]
  /\ apc' = "loading"
  /\ UNCHANGED <<issued, assignments, artifact, encryptedFile,
                 needsPassphrase, passphraseInput, calls, failures, tampered,
                 pairVars, cipherVars, genVars, moreVars>>

\* loadExistingData() after the await: the file was fetched and parsed, or
\* there is none.
LoadDone ==
  /\ apc = "loading"
  /\ \E found \in BOOLEAN :
       IF found
         THEN /\ encryptedFile' = artifact
              /\ needsPassphrase' = TRUE
              /\ state' = [state EXCEPT !.loading = FALSE,
                                        !.error = NoMessage,
                                        !.success = NoMessage]
              /\ apc' = "prompt"
         ELSE /\ encryptedFile' = encryptedFile
              /\ needsPassphrase' = needsPassphrase
              /\ state' = [state EXCEPT !.loading = FALSE,
                                        !.error = NoDataError,
                                        !.success = NoMessage]
              /\ apc' = "no_data"
  /\ UNCHANGED <<issued, assignments, artifact, passphraseInput, calls,
                 failures, tampered, pairVars, cipherVars, genVars, moreVars>>

\* The prompt is rendered and its input is enabled.
PromptShown == needsPassphrase /\ ~state.isDataLoaded /\ ~state.loading

\* onChange of the input: setPassphraseInput(e.target.value)
setPassphraseInput ==
  /\ apc = "prompt" /\ PromptShown
  /\ failures <= MaxFailures
  /\ \E t \in Typed : passphraseInput' = t
  /\ UNCHANGED <<issued, assignments, artifact, encryptedFile, state,
                 needsPassphrase, calls, failures, tampered, apc, pairVars,
                 cipherVars, genVars, moreVars>>

\* The outcome of the try block of handlePassphraseSubmit.
Recover(encryptedAssignments, pass) ==
  Once(findAndDecryptAssignment(encryptedAssignments, pass), LAMBDA found :
    IF ~found.ok
      THEN [kind |-> "threw", error |-> found.error,
            decryptCalls |-> found.decryptCalls]
    ELSE IF found.isNull \/ found.value = <<>>
      THEN [kind |-> "not_found", decryptCalls |-> found.decryptCalls]
    ELSE Once(parseIndividualAssignment(found.value), LAMBDA parsed :
           IF parsed.ok
             THEN [kind |-> "assignment", value |-> parsed.value,
                   decryptCalls |-> found.decryptCalls]
             ELSE [kind |-> "threw", error |-> parsed.error,
                   decryptCalls |-> found.decryptCalls]))

\* handlePassphraseSubmit up to its first await: the two early returns,
\* else loading is set and the recovery is called with the assignments
\* and the passphrase of this moment; its outcome is pending.
handlePassphraseSubmit ==
  /\ apc = "prompt" /\ PromptShown
  /\ failures <= MaxFailures
  /\ IF trim(passphraseInput) = <<>>
       THEN state' = [state EXCEPT !.error = EnterPassphraseError]
            /\ apc' = apc /\ pending' = pending
       ELSE IF encryptedFile = Null
         THEN state' = [state EXCEPT !.error = NoEncryptedDataError]
              /\ apc' = apc /\ pending' = pending
         ELSE state' = [state EXCEPT !.loading = TRUE, !.error = NoMessage]
              /\ apc' = "submitting"
              /\ pending' = Recover(encryptedFile.assignments, passphraseInput)
  /\ UNCHANGED <<issued, assignments, artifact, encryptedFile,
                 needsPassphrase, passphraseInput, calls, failures, tampered,
                 pairVars, cipherVars, genVars, restVars>>

\* setState((prev) => ({...prev, loading: false, error})) of a failed
\* attempt.
FailedStateStillLoading(prev, message) == [prev EXCEPT !.error = message]
FailedStateLoaded(prev, message) ==
  [prev EXCEPT !.loading = FALSE, !.error = message, !.isDataLoaded = TRUE]
FailedState(prev, message) ==
  [prev EXCEPT !.loading = FALSE, !.error = message]

\* handlePassphraseSubmit after the await: not found, found, or the catch
\* block.
SubmitDone ==
  /\ apc = "submitting"
  /\ pending' = <<>>
  /\ \E r \in {pending} :
        /\ calls' = calls \cup {[candidate |-> passphraseInput, outcome |-> r]}
        /\ encryptedFile' =
             [encryptedFile EXCEPT !.assignments =
                assignmentsAfterLookup(@, passphraseInput)]
        /\ CASE r.kind = "not_found" ->
                  /\ state' = FailedState(state, NotFoundError)
                  /\ needsPassphrase' = needsPassphrase
                  /\ failures' = failures + 1
                  /\ apc' = "prompt"
             [] r.kind = "assignment" ->
                  /\ state' = [state EXCEPT
                                 !.assignment = [isNull |-> FALSE,
                                                 giver |-> r.value.giver,
                                                 recipient |-> r.value.recipient,
                                                 recipientBio |-> r.value.recipientBio],
                                 !.isDataLoaded = TRUE,
                                 !.loading = FALSE,
                                 !.success = FoundMessage]
                  /\ needsPassphrase' = FALSE
                  /\ failures' = failures
                  /\ apc' = "shown"
             [] r.kind = "threw" ->
                  /\ state' = FailedState(state, SubmitError(r.error))
                  /\ needsPassphrase' = needsPassphrase
                  /\ failures' = failures + 1
                  /\ apc' = "prompt"
  /\ UNCHANGED <<issued, assignments, artifact, passphraseInput, tampered,
                 pairVars, cipherVars, genVars, restVars>>

AppNext ==
  \/ BuildRecord \/ DamageRecord \/ SwapRecords \/ loadExistingData
  \/ LoadDone
  \/ setPassphraseInput \/ handlePassphraseSubmit \/ SubmitDone

AppSpec == AppInit /\ [][AppNext]_vars

\* One run of the app, under which the end of loading is verified.  The
\* handlers are asynchronous code whose awaited promises settle: a handler
\* that was started is finished.
LiveAppInit ==
  /\ AppInit
  /\ issued = << <<115>>, <<116>>, <<115, 233>> >>
  /\ assignments[1].recipient = PersonNames[2]

FairAppSpec ==
  LiveAppInit /\ [][AppNext]_vars /\ WF_vars(LoadDone) /\ WF_vars(SubmitDone)

(***************************************************************************)
(* Recovery: the claims.                                                   *)
(***************************************************************************)
\* The assignment the app holds is that of participant p.
Holds(st, p) ==
  /\ st.assignment # Null
  /\ st.assignment.giver = assignments[p].giver
  /\ st.assignment.recipient = assignments[p].recipient
  /\ st.assignment.recipientBio = assignments[p].recipientBio

\* The recovery attempts made so far with the secret c.
CallsWith(c) == { e \in calls : e.candidate = c }

\* C13: with an artifact built from pairwise distinct secrets, recovery
\* with a participant's secret returns exactly that participant's
\* assignment, for every participant.
C13_LookupCorrect ==
  (apc \in {"prompt", "submitting", "shown"} /\ ~tampered) =>
    /\ \A p \in DOMAIN issued : \A e \in CallsWith(issued[p]) :
         e.outcome.kind = "assignment" /\ e.outcome.value = assignments[p]
    /\ apc = "shown" =>
         \E p \in DOMAIN issued : passphraseInput = issued[p] /\ Holds(state, p)

C13_Witness ==
  /\ apc = "shown" /\ ~tampered
  /\ passphraseInput = <<115, 233>>
  /\ state.assignment.recipientBio = <<>>
  /\ state.assignment.giver = <<233>>
  /\ \E e \in calls : e.outcome.kind = "assignment"

\* C14: recovery with one participant's secret never returns another
\* participant's assignment, whatever attempts are made and even when
\* records of the file were damaged or exchanged: an assignment is returned
\* only for the secret of its giver.
C14_Isolation ==
  apc \in {"prompt", "submitting", "shown"} =>
    /\ \A e \in calls :
         e.outcome.kind = "assignment" =>
           \E p \in DOMAIN issued :
             e.candidate = issued[p] /\ e.outcome.value = assignments[p]
    /\ state.assignment # Null =>
         \E p \in DOMAIN issued : passphraseInput = issued[p] /\ Holds(state, p)

\* The second participant's secret was tried on a file in which the second
\* record holds what was the first participant's blob.
C14_Witness ==
  /\ apc = "prompt" /\ tampered
  /\ CallsWith(issued[2]) # {}
  /\ state.assignment = Null
  /\ decryptData(artifact.assignments[hashPassphrase(issued[2])], issued[1]).ok

\* C15: a secret whose digest is no key of the mapping ends the attempt in
\* the not-found outcome: findAndDecryptAssignment returns null without a
\* call of decryptData and the app shows its not-found error.
C15_NeverIssuedNotFound ==
  [][(apc = "submitting" /\
       hashPassphrase(passphraseInput) \notin DOMAIN encryptedFile.assignments)
      => /\ apc' = "prompt"
         /\ state'.error = NotFoundError
         /\ ~state'.loading
         /\ state'.assignment = Null
         /\ \A e \in calls' : e.candidate = passphraseInput =>
              e.outcome.kind = "not_found" /\ e.outcome.decryptCalls = 0]_vars

C15_Witness ==
  /\ apc = "prompt" /\ ~tampered
  /\ state.error = NotFoundError
  /\ \E e \in CallsWith(<<117>>) : e.outcome.kind = "not_found"

\* C16: an attempt that fails because the lookup key is absent and one that
\* fails because the record does not decrypt give the caller the same
\* outcome.
C16_UndifferentiatedFailure ==
  \A e1, e2 \in calls :
    (e1.outcome.kind # "assignment" /\ e2.outcome.kind # "assignment") =>
      e1.outcome.kind = e2.outcome.kind

Base64Char(x) ==
  IF x < 26 THEN 65 + x
  ELSE IF x < 52 THEN 97 + (x - 26)
  ELSE IF x < 62 THEN 48 + (x - 52)
  ELSE IF x = 62 THEN 43
  ELSE IF x = 63 THEN 47
  ELSE 61

Base64Text(b64) == [i \in 1..Len(b64) |-> Base64Char(b64[i])]

\* The property names of the file: assignments, timestamp, version.
KeyAssignments == <<97, 115, 115, 105, 103, 110, 109, 101, 110, 116, 115>>
KeyTimestamp == <<116, 105, 109, 101, 115, 116, 97, 109, 112>>
KeyVersion == <<118, 101, 114, 115, 105, 111, 110>>

\* The members of the assignments object for the keys of ks, one after the
\* other.
RECURSIVE RecordsText(_, _, _)
RecordsText(records, ks, i) ==
  IF i > Len(ks) THEN <<>>
  ELSE (IF i > 1 THEN <<44, 32>> ELSE <<>>)
       \o jsonString(ks[i]) \o <<58, 32>>
       \o jsonString(Base64Text(records[ks[i]]))
       \o RecordsText(records, ks, i + 1)

\* The text of the file of a finished build, its records in the order of
\* the participants; the timestamp of the model has one digit.
serializeArtifact(file, secrets) ==
  Once([i \in 1..Len(secrets) |-> hashPassphrase(secrets[i])], LAMBDA ks :
    <<123>> \o jsonString(KeyAssignments) \o <<58, 32, 123>>
    \o RecordsText(file.assignments, ks, 1) \o <<125, 44, 32>>
    \o jsonString(KeyTimestamp) \o <<58, 32, 48 + file.timestamp, 44, 32>>
    \o jsonString(KeyVersion) \o <<58, 32>> \o jsonString(file.version)
    \o <<125>>)

\* needle occurs in hay as a run of consecutive elements.
Occurs(needle, hay) ==
  \E i \in 1..(Len(hay) - Len(needle) + 1) :
    SubSeq(hay, i, i + Len(needle) - 1) = needle

\* The names, bios and secrets of a run that are not empty.
Plaintexts ==
  ({ assignments[p].giver : p \in DOMAIN assignments }
     \cup { assignments[p].recipientBio : p \in DOMAIN assignments }
     \cup { issued[p] : p \in DOMAIN issued }) \ { <<>> }

HexChars == (48..57) \cup (97..102)

\* The file as it left the builder.
Published == apc = "published" /\ ~tampered

\* C19 as stated: no name, bio or secret of the run occurs in the text of
\* the artifact.
C19_NoPlaintextSubstring ==
  Published =>
    \E text \in {serializeArtifact(artifact, issued)} :
      \A x \in Plaintexts : ~Occurs(x, text)

\* C19, amended: the artifact stores nothing in the clear.  Its keys are
\* the hexadecimal digests of the secrets, each value is base64 text of
\* salt, IV, ciphertext and tag, and the bytes it decodes to contain neither
\* the serialized assignment nor the quoted name or bio of its record.
C19_NothingStoredInClear ==
  Published =>
    /\ DOMAIN artifact = {"assignments", "timestamp", "version"}
    /\ DOMAIN artifact.assignments =
         { hashPassphrase(issued[p]) : p \in DOMAIN issued }
    /\ \A k \in DOMAIN artifact.assignments :
         Len(k) = 2 * DIGEST_LENGTH /\ \A i \in DOMAIN k : k[i] \in HexChars
    /\ \A p \in DOMAIN issued :
         \E b64 \in {artifact.assignments[hashPassphrase(issued[p])]} :
         \E decoded \in {atob(b64)} :
         \E payload \in {TextEncode(serializeAssignment(assignments[p]))} :
           /\ \A i \in DOMAIN b64 : b64[i] \in 0..64
           /\ decoded.ok
           /\ Len(decoded.value) =
                SALT_LENGTH + IV_LENGTH + Len(payload) + TAG_LENGTH
           /\ ~Occurs(payload, decoded.value)
           /\ ~Occurs(TextEncode(jsonString(assignments[p].giver)),
                      decoded.value)
           /\ ~Occurs(TextEncode(jsonString(assignments[p].recipient)),
                      decoded.value)
           /\ ~Occurs(TextEncode(jsonString(assignments[p].recipientBio)),
                      decoded.value)

\* A finished artifact of a run with the bio "2.0", which the text of the
\* file holds as its version.
C19_Witness ==
  /\ Published
  /\ Cardinality(DOMAIN artifact.assignments) = 3
  /\ \E p \in DOMAIN assignments : assignments[p].recipientBio = VERSION
  /\ Occurs(VERSION, serializeArtifact(artifact, issued))

(***************************************************************************)
(* The generator of the secrets: one secret per participant, each a word   *)
(* of the vocabulary and a numeric suffix joined by a hyphen, drawn again  *)
(* when it was produced before.                                            *)
(***************************************************************************)
\* The vocabulary of the model: ivy, gift.
Vocabulary == { <<105, 118, 121>>, <<103, 105, 102, 116>> }

\* The numeric suffixes of the model: 0, 1.
Suffixes == { <<48>>, <<49>> }

\* What one draw can give.
SecretCandidates == { w \o <<45>> \o n : w \in Vocabulary, n \in Suffixes }

\* The number of participants of the run.
ParticipantCount == 3

\* The membership test: the candidate was produced before.
CollidesNever(c, produced) == FALSE
Collides(c, produced) == \E i \in DOMAIN produced : produced[i] = c

GenInit ==
  /\ generated = <<>>
  /\ tries = 0
  /\ gpc = "drawing"
  /\ PairingIdle /\ CipherIdle /\ AppIdle /\ MoreIdle

\* One draw: a candidate that collides is dropped and counted, another is
\* handed to the next participant.
DrawSecret ==
  /\ gpc = "drawing"
  /\ tries < MaxCollisions
  /\ \E c \in SecretCandidates :
       IF Collides(c, generated)
         THEN /\ tries' = tries + 1
              /\ generated' = generated
              /\ gpc' = gpc
         ELSE /\ tries' = tries
              /\ generated' = Append(generated, c)
              /\ gpc' = IF Len(generated) + 1 = ParticipantCount
                          THEN "done" ELSE "drawing"
  /\ UNCHANGED <<pairVars, cipherVars, appVars, moreVars>>

\* The ceiling is reached: the run ends with the fatal error.
GiveUp ==
  /\ gpc = "drawing"
  /\ tries >= MaxCollisions
  /\ gpc' = "fatal"
  /\ UNCHANGED <<generated, tries, pairVars, cipherVars, appVars, moreVars>>

GenNext == DrawSecret \/ GiveUp

GenSpec == GenInit /\ [][GenNext]_vars

\* C20: the secrets generated in one run are pairwise distinct.
C20_SecretsDistinct ==
  \A i, j \in DOMAIN generated : generated[i] = generated[j] => i = j

\* A finished run in which a draw collided and was made again.
C20_Witness ==
  /\ gpc = "done" /\ Len(generated) = ParticipantCount
  /\ tries > 0

(***************************************************************************)
(* The build with secrets of any origin: two participants may hold the     *)
(* same secret, and so the same lookup key.                                *)
(***************************************************************************)
BuildInit == issued \in [1..3 -> Secrets] /\ AppStart

\* The lookup key of the next participant is taken: the build ends with the
\* fatal error and publishes nothing.
BuildAbort ==
  /\ apc = "build"
  /\ LET k == Cardinality(DOMAIN artifact.assignments) + 1
     IN /\ k <= Len(issued)
        /\ KeyTaken(artifact.assignments, hashPassphrase(issued[k]))
  /\ apc' = "build_failed"
  /\ UNCHANGED <<issued, assignments, artifact, encryptedFile, state,
                 needsPassphrase, passphraseInput, calls, failures, tampered,
                 pairVars, cipherVars, genVars, moreVars>>

BuildNext == BuildRecord \/ BuildAbort

BuildSpec == BuildInit /\ [][BuildNext]_vars

\* Two participants of the run have the same lookup key.
KeysCollide ==
  \E i, j \in DOMAIN issued :
    i < j /\ hashPassphrase(issued[i]) = hashPassphrase(issued[j])

\* C21: a build in which two participants have the same lookup key publishes
\* no artifact and ends with the fatal error when it comes to the second of
\* them, and every record stored so far is still the record of its own
\* participant: it opens under that participant's secret to that
\* participant's assignment.
C21_CollisionIsFatal ==
  /\ KeysCollide => apc \in {"build", "build_failed"}
  /\ apc = "build_failed" => KeysCollide
  /\ \A i \in 1..Cardinality(DOMAIN artifact.assignments) :
       \E key \in {hashPassphrase(issued[i])} :
         /\ key \in DOMAIN artifact.assignments
         /\ decryptData(artifact.assignments[key], issued[i])
              = [ok |-> TRUE, value |-> serializeAssignment(assignments[i])]

\* The build failed at the third participant, whose secret is the first
\* participant's, with the records of the first two stored.
C21_Witness ==
  /\ apc = "build_failed"
  /\ issued[3] = issued[1] /\ issued[2] # issued[1]
  /\ Cardinality(DOMAIN artifact.assignments) = 2

(***************************************************************************)
(* A session of encryptData calls.  The random source is taken not to      *)
(* repeat itself: its n-th call gives an array of its own.                 *)
(***************************************************************************)
\* crypto.getRandomValues(new Uint8Array(length)), the n-th call of the
\* session.
getRandomValuesStale(n, length) == [i \in 1..length |-> (i * 11) % 256]
getRandomValues(n, length) == [i \in 1..length |-> (n * 37 + i * 11) % 256]

\* The payloads of the session: an empty object's brace, and the brace
\* followed by e-acute.
SealPayloads == { <<123>>, <<123, 233>> }

SealInit ==
  /\ randomCalls = 0
  /\ encryptions = <<>>
  /\ PairingIdle /\ CipherIdle /\ AppIdle /\ GenIdle
  /\ StoreIdle /\ FetchIdle /\ CsvIdle /\ legacyAssignments = <<>>
  /\ pending = <<>>

\* encryptData(data, passphrase): generateSalt(), generateIV(), and the
\* blob of the two with the ciphertext.
EncryptCall ==
  /\ Len(encryptions) < MaxEncryptions
  /\ \E str \in SealPayloads : \E pass \in Secrets :
     \E salt \in {getRandomValues(randomCalls, SALT_LENGTH)} :
     \E iv \in {getRandomValues(randomCalls + 1, IV_LENGTH)} :
       encryptions' = Append(encryptions,
                             [data |-> str, passphrase |-> pass,
                              salt |-> salt, iv |-> iv,
                              blob |-> encryptData(str, pass, salt, iv)])
  /\ randomCalls' = randomCalls + 2
  /\ UNCHANGED <<pairVars, cipherVars, appVars, genVars, localStorage,
                 generatedFileData, legacyAssignments, response, loaded,
                 csvContent, csvError, pending>>

SealNext == EncryptCall

SealSpec == SealInit /\ [][SealNext]_vars

\* The bytes of the blob of the i-th call.
Combined(i) == atob(encryptions[i].blob).value

\* C24: the bytes of a blob of encryptData are the salt it generated (bytes
\* 0..15), the IV it generated (bytes 16..27) and the ciphertext with its
\* tag (byte 28 to the end); decryptData takes its salt, IV and ciphertext
\* from these places, derives the key from the stored salt and returns the
\* data.
C24_LayoutAgrees ==
  \A i \in DOMAIN encryptions :
    \E e \in {encryptions[i]} : \E combined \in {Combined(i)} :
      /\ SubSeq(combined, 1, 16) = e.salt
      /\ SubSeq(combined, 17, 28) = e.iv
      /\ SubSeq(combined, 29, Len(combined))
           = subtleEncrypt(deriveKey(e.passphrase, e.salt), e.iv,
                           TextEncode(e.data))
      /\ Len(combined) = 28 + Len(TextEncode(e.data)) + TAG_LENGTH
      /\ SaltOf(combined) = e.salt
      /\ IvOf(combined) = e.iv
      /\ EncryptedOf(combined) = SubSeq(combined, 29, Len(combined))
      /\ decryptData(e.blob, e.passphrase) = [ok |-> TRUE, value |-> e.data]

\* A blob of a payload with a two-byte character was written.
C24_Witness ==
  \E i \in DOMAIN encryptions :
    /\ encryptions[i].data = <<123, 233>>
    /\ Len(Combined(i)) = 28 + 3 + TAG_LENGTH

C28_AssignmentIffLoaded ==
  /\ state.assignment # Null <=> state.isDataLoaded
  /\ state.assignment # Null =>
       \E c \in calls : \E k \in {hashPassphrase(c.candidate)} :
         /\ k \in DOMAIN encryptedFile.assignments
         /\ \E d \in {decryptData(encryptedFile.assignments[k], c.candidate)} :
              /\ d.ok
              /\ \E parsed \in {parseIndividualAssignment(d.value)} :
                   /\ parsed.ok
                   /\ state.assignment.giver = parsed.value.giver
                   /\ state.assignment.recipient = parsed.value.recipient
                   /\ state.assignment.recipientBio = parsed.value.recipientBio

\* An assignment is shown after an attempt that failed and left both the
\* assignment and the flag unset.
C28_Witness ==
  /\ apc = "shown" /\ failures = 1
  /\ state.assignment # Null /\ state.isDataLoaded
  /\ state.assignment.giver = PersonNames[3]

\* C29: whenever loading is true it becomes false again.
C29_LoadingEnds == state.loading ~> ~state.loading

\* The handler of a submit threw and loading is false again.
C29_Witness ==
  /\ apc = "prompt" /\ ~state.loading
  /\ \E c \in calls : c.outcome.kind = "threw"
  /\ state.error # NoMessage /\ state.error # NotFoundError

(***************************************************************************)
(* loadExistingSecretSantaData (fileUtils.ts 159-191): fetch the published *)
(* file, read its text, JSON.parse it, and return it when it has the v2.0  *)
(* or the v1.0 properties; null otherwise.  JSON values are a type with a  *)
(* content: the characters of a string, the digits of a number, the        *)
(* members of an object, the elements of an array.                         *)
(***************************************************************************)
KeyData == <<100, 97, 116, 97>>

JV(type, value) == [type |-> type, value |-> value]

NoValue == [ok |-> FALSE]

RECURSIVE ReadDigits(_, _)
ReadDigits(t, i) ==
  IF i <= Len(t) /\ t[i] \in 48..57 THEN ReadDigits(t, i + 1) ELSE i

\* An integer literal at position i: an optional minus, then 0 or digits
\* that do not start with 0.
ReadNumber(t, i) ==
  LET s == IF i <= Len(t) /\ t[i] = 45 THEN i + 1 ELSE i
      e == ReadDigits(t, s)
  IN IF e = s \/ (t[s] = 48 /\ e > s + 1) THEN NoValue
     ELSE [ok |-> TRUE, value |-> JV("number", SubSeq(t, i, e - 1)),
           next |-> e]

\* The word at position i of the text.
WordAt(t, i, word) ==
  /\ i + Len(word) - 1 <= Len(t)
  /\ SubSeq(t, i, i + Len(word) - 1) = word

\* A JSON value from position i on; the members of an object and the
\* elements of an array up to the closing bracket.
RECURSIVE ReadValue(_, _)
RECURSIVE ReadMembersOf(_, _, _)
RECURSIVE ReadElements(_, _, _)
ReadValue(t, i0) ==
  LET i == SkipSpaces(t, i0)
  IN IF i > Len(t) THEN NoValue
     ELSE IF t[i] = 34
       THEN Once(ReadString(t, i), LAMBDA s :
              IF s.ok THEN [ok |-> TRUE, value |-> JV("string", s.value),
                            next |-> s.next]
                      ELSE NoValue)
     ELSE IF t[i] = 123
       THEN LET j == SkipSpaces(t, i + 1)
            IN IF j <= Len(t) /\ t[j] = 125
                 THEN [ok |-> TRUE, value |-> JV("object", <<>>),
                       next |-> j + 1]
                 ELSE ReadMembersOf(t, i + 1, <<>>)
     ELSE IF t[i] = 91
       THEN LET j == SkipSpaces(t, i + 1)
            IN IF j <= Len(t) /\ t[j] = 93
                 THEN [ok |-> TRUE, value |-> JV("array", <<>>),
                       next |-> j + 1]
                 ELSE ReadElements(t, i + 1, <<>>)
     ELSE IF WordAt(t, i, <<110, 117, 108, 108>>)
       THEN [ok |-> TRUE, value |-> JV("null", <<>>), next |-> i + 4]
     ELSE IF WordAt(t, i, <<116, 114, 117, 101>>)
       THEN [ok |-> TRUE, value |-> JV("true", <<>>), next |-> i + 4]
     ELSE IF WordAt(t, i, <<102, 97, 108, 115, 101>>)
       THEN [ok |-> TRUE, value |-> JV("false", <<>>), next |-> i + 5]
     ELSE ReadNumber(t, i)

ReadMembersOf(t, i, obj) ==
  Once(ReadString(t, SkipSpaces(t, i)), LAMBDA k :
    IF ~k.ok THEN NoValue
    ELSE LET c == SkipSpaces(t, k.next)
         IN IF c > Len(t) \/ t[c] # 58 THEN NoValue
            ELSE Once(ReadValue(t, c + 1), LAMBDA v :
                   IF ~v.ok THEN NoValue
                   ELSE Once(<<SkipSpaces(t, v.next),
                               Append(obj, <<k.value, v.value>>)>>,
                             LAMBDA eo :
                               IF eo[1] > Len(t) THEN NoValue
                               ELSE IF t[eo[1]] = 44
                                 THEN ReadMembersOf(t, eo[1] + 1, eo[2])
                               ELSE IF t[eo[1]] = 125
                                 THEN [ok |-> TRUE,
                                       value |-> JV("object", eo[2]),
                                       next |-> eo[1] + 1]
                               ELSE NoValue)))

ReadElements(t, i, arr) ==
  Once(ReadValue(t, i), LAMBDA v :
    IF ~v.ok THEN NoValue
    ELSE Once(<<SkipSpaces(t, v.next), Append(arr, v.value)>>, LAMBDA eo :
           IF eo[1] > Len(t) THEN NoValue
           ELSE IF t[eo[1]] = 44 THEN ReadElements(t, eo[1] + 1, eo[2])
           ELSE IF t[eo[1]] = 93
             THEN [ok |-> TRUE, value |-> JV("array", eo[2]),
                   next |-> eo[1] + 1]
           ELSE NoValue))

\* JSON.parse(content) for any text: the value, or the SyntaxError.
JSONparseValue(content) ==
  Once(content, LAMBDA t :
    Once(ReadValue(t, 1), LAMBDA r :
      IF r.ok /\ SkipSpaces(t, r.next) = Len(t) + 1
        THEN [ok |-> TRUE, value |-> r.value]
        ELSE [ok |-> FALSE, error |-> "SyntaxError"]))

\* parsed[key] of a value that is not null: the property of an object, and
\* undefined for these names on a string, a number, a boolean or an array.
Prop(parsed, key) ==
  IF parsed.type = "object" THEN Get(parsed.value, key)
                            ELSE [defined |-> FALSE]

\* The truth value of a property in a condition.
Truthy(x) ==
  /\ x.defined
  /\ CASE x.value.type = "string" -> x.value.value # <<>>
       [] x.value.type = "number" ->
            \E i \in DOMAIN x.value.value : x.value.value[i] \in 49..57
       [] x.value.type \in {"null", "false"} -> FALSE
       [] OTHER -> TRUE

\* The two format checks of lines 173 and 178.
IsV2(parsed) ==
  /\ Truthy(Prop(parsed, KeyAssignments))
  /\ Truthy(Prop(parsed, KeyTimestamp))
  /\ Truthy(Prop(parsed, KeyVersion))

IsV1(parsed) ==
  /\ Truthy(Prop(parsed, KeyData))
  /\ Truthy(Prop(parsed, KeyTimestamp))
  /\ Truthy(Prop(parsed, KeyVersion))

\* Lines 169-180 for the text of an OK response: the value returned, what
\* is thrown inside the try block, or neither (the end of the block).
CheckContent(content) ==
  Once(JSONparseValue(content), LAMBDA parsed :
    IF ~parsed.ok THEN [kind |-> "threw", error |-> parsed.error]
    ELSE IF parsed.value.type = "null"
      THEN [kind |-> "threw", error |-> "TypeError"]
    ELSE IF IsV2(parsed.value) \/ IsV1(parsed.value)
      THEN [kind |-> "returned", value |-> parsed.value]
    ELSE [kind |-> "fell through"])

\* The end of the call (lines 182-190): a value returned in the block is
\* the result; otherwise the catch block logs what was thrown, and null is
\* returned.
AfterTryNoCatch(outcome) ==
  IF outcome.kind = "returned"
    THEN [pc |-> "done", result |-> [isNull |-> FALSE, value |-> outcome.value]]
  ELSE IF outcome.kind = "threw"
    THEN [pc |-> "threw", error |-> outcome.error]
  ELSE [pc |-> "done", result |-> Null]
AfterTry(outcome) ==
  IF outcome.kind = "returned"
    THEN [pc |-> "done", result |-> [isNull |-> FALSE, value |-> outcome.value]]
    ELSE [pc |-> "done", result |-> Null]

\* The members a published file may or may not have, as JSON text.
AssignmentsTexts ==
  { <<>>, <<34, 97, 115, 115, 105, 103, 110, 109, 101, 110, 116, 115, 34, 58, 123, 125>>,
    <<34, 97, 115, 115, 105, 103, 110, 109, 101, 110, 116, 115, 34, 58, 123, 34, 97, 98, 34, 58, 34, 99, 100, 34, 125>>,
    <<34, 97, 115, 115, 105, 103, 110, 109, 101, 110, 116, 115, 34, 58, 110, 117, 108, 108>> }
DataTexts ==
  { <<>>, <<34, 100, 97, 116, 97, 34, 58, 34, 81, 85, 74, 68, 34>>,
    <<34, 100, 97, 116, 97, 34, 58, 34, 34>> }
TimestampTexts ==
  { <<>>, <<34, 116, 105, 109, 101, 115, 116, 97, 109, 112, 34, 58, 49, 55, 48, 48, 48, 48, 48, 48, 48, 48, 48, 48, 48>>,
    <<34, 116, 105, 109, 101, 115, 116, 97, 109, 112, 34, 58, 48>> }
VersionTexts ==
  { <<>>, <<34, 118, 101, 114, 115, 105, 111, 110, 34, 58, 34, 50, 46, 48, 34>>,
    <<34, 118, 101, 114, 115, 105, 111, 110, 34, 58, 34, 49, 46, 48, 34>>,
    <<34, 118, 101, 114, 115, 105, 111, 110, 34, 58, 34, 34>> }

\* The members that are present, separated by commas.
RECURSIVE JoinMembers(_, _)
JoinMembers(ms, i) ==
  IF i > Len(ms) THEN <<>>
  ELSE LET rest == JoinMembers(ms, i + 1)
       IN IF ms[i] = <<>> THEN rest
          ELSE IF rest = <<>> THEN ms[i]
          ELSE ms[i] \o <<44>> \o rest

ObjectTexts ==
  { <<123>> \o JoinMembers(<<a, d, ts, v>>, 1) \o <<125>> :
      a \in AssignmentsTexts, d \in DataTexts, ts \in TimestampTexts,
      v \in VersionTexts }

\* Texts that are no object: null, 17, "2.0", [], true, the empty text, an
\* open brace, a page of HTML, an object with a trailing comma.
OtherTexts ==
  { <<110, 117, 108, 108>>, <<49, 55>>, <<34, 50, 46, 48, 34>>,
    <<91, 93>>, <<116, 114, 117, 101>>, <<>>, <<123>>,
    <<60, 33, 68, 79, 67, 84, 89, 80, 69, 32, 104, 116, 109, 108, 62>>,
    <<123, 34, 118, 101, 114, 115, 105, 111, 110, 34, 58, 34, 50, 46, 48, 34, 44, 125>> }

\* What fetch and response.text() can do: fetch rejects; a response that
\* is not OK; an OK response whose body cannot be read; an OK response with
\* a text.
Responses ==
  { [kind |-> "rejected"] }
  \cup { [kind |-> "response", ok |-> FALSE, readable |-> TRUE, text |-> c] :
           c \in { <<60, 33, 68, 79, 67, 84, 89, 80, 69, 32, 104, 116, 109, 108, 62>>, <<123, 34, 100, 97, 116, 97, 34, 58, 34, 81, 85, 74, 68, 34, 44, 34, 116, 105, 109, 101, 115, 116, 97, 109, 112, 34, 58, 49, 55, 48, 48, 48, 48, 48, 48, 48, 48, 48, 48, 48, 44, 34, 118, 101, 114, 115, 105, 111, 110, 34, 58, 34, 49, 46, 48, 34, 125>> } }
  \cup { [kind |-> "response", ok |-> TRUE, readable |-> FALSE, text |-> <<>>] }
  \cup { [kind |-> "response", ok |-> TRUE, readable |-> TRUE, text |-> c] :
           c \in ObjectTexts \cup OtherTexts }

LoadInit ==
  /\ response \in Responses
  /\ loaded = <<>>
  /\ PairingIdle /\ CipherIdle /\ AppIdle /\ GenIdle
  /\ SealIdle /\ StoreIdle /\ CsvIdle /\ legacyAssignments = <<>>
  /\ pending = <<>>

loadVars == <<pairVars, cipherVars, appVars, genVars, randomCalls,
              encryptions, localStorage, generatedFileData,
              legacyAssignments, csvContent, csvError, pending>>

\* The call, up to the await of fetch (line 165).
LoadCall ==
  /\ loaded = <<>>
  /\ loaded' = [pc |-> "fetch"]
  /\ UNCHANGED <<response, loadVars>>

\* fetch settles: a rejection is caught, a response that is not OK skips
\* the block, an OK response is read (lines 165-168).
LoadFetched ==
  /\ loaded # <<>> /\ loaded.pc = "fetch"
  /\ loaded' = IF response.kind = "rejected"
                 THEN AfterTry([kind |-> "threw", error |-> "TypeError"])
               ELSE IF ~response.ok
                 THEN AfterTry([kind |-> "fell through"])
               ELSE [pc |-> "text"]
  /\ UNCHANGED <<response, loadVars>>

\* response.text() settles, and the text is parsed and checked (lines
\* 168-180).
LoadRead ==
  /\ loaded # <<>> /\ loaded.pc = "text"
  /\ loaded' = IF ~response.readable
                 THEN AfterTry([kind |-> "threw", error |-> "TypeError"])
                 ELSE AfterTry(CheckContent(response.text))
  /\ UNCHANGED <<response, loadVars>>

LoadNext == LoadCall \/ LoadFetched \/ LoadRead

LoadSpec == LoadInit /\ [][LoadNext]_vars

\* The text has a member of that name.
HasMember(content, key) ==
  /\ JSONparseValue(content).ok
  /\ JSONparseValue(content).value.type = "object"
  /\ Get(JSONparseValue(content).value.value, key).defined

\* The text has the members of the v2.0 or of the v1.0 format.
HasFieldSet(content) ==
  /\ HasMember(content, KeyTimestamp)
  /\ HasMember(content, KeyVersion)
  /\ HasMember(content, KeyAssignments) \/ HasMember(content, KeyData)

\* C30: loadExistingSecretSantaData never throws; it returns null when
\* fetch fails, when the response is not OK, when the text is not JSON and
\* when the JSON lacks the members of both formats; and a result that is not
\* null is the parsed file and has timestamp and version and one of
\* assignments and data.
C30_LoaderTotal ==
  loaded # <<>> =>
    /\ loaded.pc # "threw"
    /\ loaded.pc = "done" =>
         /\ ( \/ response.kind = "rejected"
              \/ ~response.ok
              \/ ~response.readable
              \/ ~JSONparseValue(response.text).ok
              \/ ~HasFieldSet(response.text) ) => loaded.result.isNull
         /\ ~loaded.result.isNull =>
              /\ loaded.result.value = JSONparseValue(response.text).value
              /\ HasMember(response.text, KeyTimestamp)
              /\ HasMember(response.text, KeyVersion)
              /\ \/ HasMember(response.text, KeyAssignments)
                 \/ HasMember(response.text, KeyData)

\* A file of the v1.0 format was returned.
C30_Witness ==
  /\ loaded # <<>> /\ loaded.pc = "done"
  /\ ~loaded.result.isNull
  /\ HasMember(response.text, KeyData)
  /\ ~HasMember(response.text, KeyAssignments)

(***************************************************************************)
(* parseCSV and parseCSVLine on the text of the file (csvParser.ts         *)
(* 18-115).  Lists are indexed from 1, so the index of a header is the     *)
(* number of its column.                                                   *)
(***************************************************************************)
\* String.prototype.split(sep) for a separator of one character.
RECURSIVE SplitFrom(_, _, _)
SplitFrom(str, i, sep) ==
  Once(FirstIn(str, i, {sep}), LAMBDA e :
    IF e > Len(str) THEN << SubSeq(str, i, Len(str)) >>
    ELSE << SubSeq(str, i, e - 1) >> \o SplitFrom(str, e + 1, sep))

split(str, sep) == SplitFrom(str, 1, sep)

\* String.prototype.toLowerCase on the letters A to Z.
LowerCased(str) ==
  [i \in DOMAIN str |-> IF str[i] \in 65..90 THEN str[i] + 32 ELSE str[i]]

\* Array.prototype.indexOf, counted from 1; 0 when absent.
IndexOf(seq, x) ==
  Once({ k \in DOMAIN seq : seq[k] = x }, LAMBDA ks :
    IF ks = {} THEN 0 ELSE CHOOSE k \in ks : \A m \in ks : k <= m)

Max3(a, b, c) ==
  IF a >= b /\ a >= c THEN a ELSE IF b >= c THEN b ELSE c

ColName == <<110, 97, 109, 101>>
ColBio == <<98, 105, 111>>
ColSo == <<115, 111>>
requiredColumns == <<ColName, ColBio, ColSo>>

\* The loop of parseCSVLine and the last field (lines 80-107): the fields
\* of the line.
RECURSIVE FieldsFrom(_, _, _, _, _)
FieldsFrom(line, i, values, current, inQuotes) ==
  IF i > Len(line) THEN Append(values, trim(current))
  ELSE IF line[i] = 34
    THEN IF inQuotes /\ i + 1 <= Len(line) /\ line[i + 1] = 34
           THEN FieldsFrom(line, i + 2, values, Append(current, 34), inQuotes)
           ELSE FieldsFrom(line, i + 1, values, current, ~inQuotes)
  ELSE IF line[i] = 44 /\ ~inQuotes
    THEN FieldsFrom(line, i + 1, Append(values, trim(current)), <<>>, inQuotes)
  ELSE FieldsFrom(line, i + 1, values, Append(current, line[i]), inQuotes)

Fields(line) == FieldsFrom(line, 1, <<>>, <<>>, FALSE)

\* The end of parseCSVLine (lines 109-114): empty strings are added until
\* there are three values.
Padded(values) ==
  values \o [k \in 1..(3 - Len(values)) |-> <<>>]

parseCSVLine(line) == Padded(Fields(line))

\* The loop of parseCSV from line i on (lines 43-73).
RECURSIVE ParseLines(_, _, _, _, _, _)
ParseLines(lines, i, nameIndex, bioIndex, soIndex, acc) ==
  IF i > Len(lines) THEN [ok |-> TRUE, value |-> acc]
  ELSE Once(trim(lines[i]), LAMBDA line :
    IF line = <<>>
      THEN ParseLines(lines, i + 1, nameIndex, bioIndex, soIndex, acc)
    ELSE Once(parseCSVLine(line), LAMBDA values :
      IF Len(values) < Max3(nameIndex, bioIndex, soIndex)
        THEN [ok |-> FALSE,
              error |-> [kind |-> "has insufficient columns", line |-> i,
                         expected |-> Max3(nameIndex, bioIndex, soIndex),
                         found |-> Len(values)]]
      ELSE IF trim(values[nameIndex]) = <<>>
        THEN [ok |-> FALSE,
              error |-> [kind |-> "has empty name field", line |-> i,
                         expected |-> 0, found |-> 0]]
      ELSE ParseLines(lines, i + 1, nameIndex, bioIndex, soIndex,
                      Append(acc, [name |-> trim(values[nameIndex]),
                                   bio |-> trim(values[bioIndex]),
                                   significantOther |-> trim(values[soIndex])]))))

\* The header row of the text as parseCSV reads it (line 25).
HeadersOf(lines) ==
  Once(split(lines[1], 44), LAMBDA hs :
    [k \in DOMAIN hs |-> LowerCased(trim(hs[k]))])

\* parseCSV(csvContent) on the text: the participants, or the error thrown.
parseCSVText(content) ==
  Once(split(trim(content), 10), LAMBDA lines :
    IF Len(lines) < 2
      THEN [ok |-> FALSE,
            error |-> [kind |-> "CSV must have at least a header row and one data row",
                       line |-> 0, expected |-> 0, found |-> 0]]
    ELSE Once(HeadersOf(lines), LAMBDA headers :
      IF \E k \in DOMAIN requiredColumns : IndexOf(headers, requiredColumns[k]) = 0
        THEN [ok |-> FALSE,
              error |-> [kind |-> "Missing required columns",
                         line |-> 0, expected |-> 0, found |-> 0]]
        ELSE ParseLines(lines, 2, IndexOf(headers, ColName),
                        IndexOf(headers, ColBio), IndexOf(headers, ColSo),
                        <<>>)))

\* The header rows and the data rows of the files.
HeaderTexts ==
  { <<78, 65, 77, 69, 44, 66, 73, 79, 44, 83, 79>>,
    <<78, 97, 109, 101, 44, 32, 66, 105, 111, 32, 44, 115, 111>>,
    <<73, 68, 44, 78, 65, 77, 69, 44, 66, 73, 79, 44, 83, 79>>,
    <<83, 79, 44, 78, 65, 77, 69, 44, 66, 73, 79>>,
    <<78, 65, 77, 69, 44, 83, 79>> }

\* Alice; Alice,tea; Alice,tea,Bob; "Doe, J",x,Bob; ,x,y; 1,Bob,x;
\* 1,Bob,x,Alice; an empty line; Bob,,Al with a carriage return.
RowTexts ==
  { <<65, 108, 105, 99, 101>>,
    <<65, 108, 105, 99, 101, 44, 116, 101, 97>>,
    <<65, 108, 105, 99, 101, 44, 116, 101, 97, 44, 66, 111, 98>>,
    <<34, 68, 111, 101, 44, 32, 74, 34, 44, 120, 44, 66, 111, 98>>,
    <<44, 120, 44, 121>>,
    <<49, 44, 66, 111, 98, 44, 120>>,
    <<49, 44, 66, 111, 98, 44, 120, 44, 65, 108, 105, 99, 101>>,
    <<>>,
    <<66, 111, 98, 44, 44, 65, 108, 13>> }

\* A header alone, with one data row, and with two.
CsvTexts ==
  HeaderTexts
  \cup { h \o <<10>> \o r : h \in HeaderTexts, r \in RowTexts }
  \cup { h \o <<10>> \o r \o <<10>> \o s \o <<10>> :
           h \in HeaderTexts, r \in RowTexts, s \in RowTexts }

CsvInit ==
  /\ csvContent \in CsvTexts
  /\ csvError = <<>>
  /\ PairingIdle /\ CipherIdle /\ AppIdle /\ GenIdle
  /\ SealIdle /\ StoreIdle /\ FetchIdle /\ legacyAssignments = <<>>
  /\ pending = <<>>

\* const participants = parseCSV(csvContent)
ParseText ==
  /\ pc = "idle"
  /\ \E r \in {parseCSVText(csvContent)} :
       IF r.ok
         THEN /\ participants' = r.value
              /\ csvError' = <<>>
              /\ pc' = "parsed"
         ELSE /\ participants' = <<>>
              /\ csvError' = r.error
              /\ pc' = "parse_error"
  /\ UNCHANGED <<rows, attempts, result, cipherVars, appVars, genVars,
                 randomCalls, encryptions, localStorage, generatedFileData,
                 legacyAssignments, response, loaded, csvContent, pending>>

CsvNext == ParseText

CsvSpec == CsvInit /\ [][CsvNext]_vars

\* The lines of the file, and the number of columns its header requires.
LinesOf(content) == split(trim(content), 10)

Required(content) ==
  Max3(IndexOf(HeadersOf(LinesOf(content)), ColName),
       IndexOf(HeadersOf(LinesOf(content)), ColBio),
       IndexOf(HeadersOf(LinesOf(content)), ColSo))

\* The data rows that have fewer fields than the header requires.
ShortRows(content) ==
  { i \in 2..Len(LinesOf(content)) :
      /\ trim(LinesOf(content)[i]) # <<>>
      /\ Len(Fields(trim(LinesOf(content)[i]))) < Required(content) }

\* The header has the three columns.
HeaderComplete(content) ==
  /\ Len(LinesOf(content)) >= 2
  /\ \A k \in DOMAIN requiredColumns :
       IndexOf(HeadersOf(LinesOf(content)), requiredColumns[k]) # 0

\* C26: a file with a complete header and a data row that has fewer fields
\* than the header requires is not accepted, and the error of parseCSV is
\* the insufficient-columns error of the first such row unless an earlier
\* row has an empty name; every accepted row has the three values.
C26_ShortRowsRejected ==
  (pc # "idle" /\ HeaderComplete(csvContent)) =>
    /\ pc = "parsed" => ShortRows(csvContent) = {}
    /\ \A i \in ShortRows(csvContent) :
         (\A k \in ShortRows(csvContent) : i <= k) =>
           \/ /\ pc = "parse_error"
              /\ csvError.kind = "has insufficient columns"
              /\ csvError.line = i
           \/ /\ pc = "parse_error"
              /\ csvError.kind = "has empty name field"
              /\ csvError.line < i
    /\ pc = "parsed" =>
         \A k \in DOMAIN participants :
           DOMAIN participants[k] = {"name", "bio", "significantOther"}

(***************************************************************************)
(* handleCSVUpload of the admin panel (App.tsx 510-557) around parseCSV    *)
(* and generateSecretSantaAssignments: the file check, the catch block,    *)
(* and what follows a returned list: generatePassphrase, encryptData, the  *)
(* two backups in localStorage, the generated file data and the state.     *)
(* The text that is encrypted and the blob are kept as terms, not as       *)
(* characters: <<"JSON.stringify", list>> and <<"encryptData", ...>>.      *)
(***************************************************************************)
MaxUploads == 2

\* The files chosen: a CSV file, a text file without a type, a PDF.
Files ==
  { [type |-> "text/csv", extension |-> ".csv"],
    [type |-> "", extension |-> ".txt"],
    [type |-> "application/pdf", extension |-> ".pdf"] }

isValidCSVFile(file) ==
  \/ file.type \in {"text/csv", "application/csv", "text/plain"}
  \/ file.extension \in {".csv", ".txt"}

\* The contents of the files: no data row, one participant, a pair, a
\* couple.
UploadInputs ==
  { <<>>,
    <<[name |-> "C", significantOther |-> ""]>>,
    <<[name |-> "B", significantOther |-> ""], [name |-> "C", significantOther |-> ""]>>,
    <<[name |-> "A", significantOther |-> "b"], [name |-> "B", significantOther |-> "A"]>> }

\* generatePassphrase(): four words of the list and a number, joined by
\* hyphens.  The draws of the model take one word four times.
WordDraws == { [i \in 1..4 |-> w] : w \in Vocabulary }

generatePassphrase(ws, n) ==
  ws[1] \o <<45>> \o ws[2] \o <<45>> \o ws[3] \o <<45>> \o ws[4] \o <<45>> \o n

\* localStorage.setItem(key, data)
setItem(storage, key, value) ==
  [k \in DOMAIN storage \cup {key} |-> IF k = key THEN value ELSE storage[k]]

\* useState<AppState> of the admin panel (lines 421-429).
AdminState ==
  [mode |-> "lookup", assignments |-> <<>>, passphrase |-> <<>>,
   isDataLoaded |-> FALSE, loading |-> FALSE, error |-> <<>>,
   success |-> <<>>]

UploadInit ==
  /\ rows = <<>> /\ participants = <<>> /\ attempts = 0 /\ result = <<>>
  /\ pc = "ready"
  /\ state = AdminState
  /\ issued = <<>> /\ assignments = <<>> /\ artifact = <<>>
  /\ encryptedFile = <<>> /\ needsPassphrase = FALSE
  /\ passphraseInput = <<>> /\ calls = <<>> /\ failures = 0
  /\ tampered = FALSE /\ apc = "idle"
  /\ CipherIdle /\ GenIdle /\ MoreIdle

uploadRest == <<cipherVars, issued, assignments, artifact, encryptedFile,
                needsPassphrase, passphraseInput, calls, failures, tampered,
                apc, genVars, legacyAssignments, response, loaded, csvContent,
                csvError, pending>>

\* The entry of handleCSVUpload (lines 510-521): a file that is no CSV file
\* sets the error and ends the call; otherwise loading is set and the file
\* is read.
handleCSVUpload ==
  /\ pc \in {"ready", "failed", "stored"}
  /\ Len(encryptions) < MaxUploads
  /\ \E file \in Files :
       IF ~isValidCSVFile(file)
         THEN /\ state' = [state EXCEPT !.error = <<"Please upload a valid CSV file">>]
              /\ UNCHANGED <<rows, participants, attempts, pc, result>>
         ELSE /\ state' = [state EXCEPT !.loading = TRUE, !.error = <<>>,
                                        !.success = <<>>]
              /\ rows' \in UploadInputs
              /\ participants' = <<>> /\ attempts' = 0 /\ result' = <<>>
              /\ pc' = "upload"
  /\ UNCHANGED <<randomCalls, encryptions, localStorage, generatedFileData,
                 uploadRest>>

\* The message of what parseCSV or generateSecretSantaAssignments threw.
ThrownMessage(p, rs) ==
  CASE p = "parse_error" -> parseCSV(rs).error
    [] p = "rejected" -> "Need at least 2 participants for Secret Santa"
    [] p = "exhausted" ->
         "Could not generate valid Secret Santa assignments after maximum attempts. Check for conflicts in significant other relationships."

\* The state set by the catch block (lines 547-555).
UploadFailedStateLoaded(prev, message) ==
  [prev EXCEPT !.loading = FALSE, !.isDataLoaded = TRUE,
               !.error = <<"Error processing CSV: ", message>>]
UploadFailedState(prev, message) ==
  [prev EXCEPT !.loading = FALSE,
               !.error = <<"Error processing CSV: ", message>>]

\* The catch block after parseCSV or generateSecretSantaAssignments threw.
UploadCatch ==
  /\ pc \in {"parse_error", "rejected", "exhausted"}
  /\ state' = UploadFailedState(state, ThrownMessage(pc, rows))
  /\ pc' = "failed"
  /\ UNCHANGED <<rows, participants, attempts, result, randomCalls,
                 encryptions, localStorage, generatedFileData, uploadRest>>

\* After the list was returned: generatePassphrase, and the call of
\* encryptData with its salt and IV (lines 527-531).
UploadEncrypt ==
  /\ pc = "returned"
  /\ \E ws \in WordDraws : \E n \in Suffixes :
       encryptions' =
         Append(encryptions,
                [data |-> <<"JSON.stringify", result>>,
                 passphrase |-> generatePassphrase(ws, n),
                 salt |-> getRandomValues(randomCalls, SALT_LENGTH),
                 iv |-> getRandomValues(randomCalls + 1, IV_LENGTH),
                 blob |-> <<"encryptData", <<"JSON.stringify", result>>,
                            generatePassphrase(ws, n), randomCalls>>])
  /\ randomCalls' = randomCalls + 2
  /\ pc' = "encrypting"
  /\ UNCHANGED <<rows, participants, attempts, result, state, localStorage,
                 generatedFileData, uploadRest>>

\* encryptData has resolved: the backups, the generated file data and the
\* state (lines 533-546).
UploadStore ==
  /\ pc = "encrypting"
  /\ LET call == encryptions[Len(encryptions)]
     IN /\ localStorage' =
             setItem(setItem(localStorage, "secret-santa-encrypted", call.blob),
                     "secret-santa-passphrase", call.passphrase)
        /\ generatedFileData' = [encryptedData |-> call.blob,
                                 passphrase |-> call.passphrase]
        /\ state' = [state EXCEPT
                       !.assignments = result,
                       !.passphrase = call.passphrase,
                       !.isDataLoaded = TRUE,
                       !.loading = FALSE,
                       !.success = <<"Secret Santa assignments generated successfully! Use the download button below to save the encrypted file.">>]
  /\ pc' = "stored"
  /\ UNCHANGED <<rows, participants, attempts, result, randomCalls,
                 encryptions, uploadRest>>

UploadNext ==
  \/ handleCSVUpload \/ ParseCSV \/ GenerateStart \/ Attempt \/ Exhaust
  \/ UploadCatch \/ UploadEncrypt \/ UploadStore

UploadSpec == UploadInit /\ [][UploadNext]_vars

\* What the build flow stores: the calls of the random source and of
\* encryptData, localStorage, the generated file data, and the assignments,
\* passphrase and loaded flag of the state.
Stored ==
  <<randomCalls, encryptions, localStorage, generatedFileData,
    state.assignments, state.passphrase, state.isDataLoaded>>

\* C23: in handleCSVUpload a call in which parseCSV or
\* generateSecretSantaAssignments failed has no returned list, and every
\* step that calls generatePassphrase or encryptData, writes to localStorage
\* or stores generated file data or assignments is taken after the list was
\* returned: a failed call stores nothing.
C23_NoCryptoOnInputError ==
  /\ [](pc \in {"parse_error", "rejected", "exhausted", "failed"} => result = <<>>)
  /\ [][Stored' # Stored => (result # <<>> /\ pc \in {"returned", "encrypting"})]_vars

\* A second upload failed after a first was stored, and the first is what
\* is stored.
C23_Witness ==
  /\ pc = "failed"
  /\ Len(encryptions) = 1
  /\ state.assignments # <<>>
  /\ generatedFileData # <<>>
  /\ DOMAIN localStorage = {"secret-santa-encrypted", "secret-santa-passphrase"}
  /\ state.error = <<"Error processing CSV: ",
                     "Need at least 2 participants for Secret Santa">>

(***************************************************************************)
(* The app that reads both formats (part_001): the file of the v2.0 format *)
(* holds one record per participant, the file of the v1.0 format holds the *)
(* list of all assignments encrypted under one shared passphrase.  A file  *)
(* is a record of its properties with the set of those it has.             *)
(***************************************************************************)
\* JSON.stringify(assignments, null, 2): one item of the array.
StringifyItem(a) ==
  <<32, 32, 123, 10, 32, 32, 32, 32>> \o jsonString(KeyGiver) \o <<58, 32>>
  \o jsonString(a.giver) \o <<44, 10, 32, 32, 32, 32>>
  \o jsonString(KeyRecipient) \o <<58, 32>> \o jsonString(a.recipient)
  \o <<44, 10, 32, 32, 32, 32>> \o jsonString(KeyRecipientBio) \o <<58, 32>>
  \o jsonString(a.recipientBio) \o <<10, 32, 32, 125>>

RECURSIVE StringifyItems(_, _)
StringifyItems(list, i) ==
  IF i = Len(list) THEN StringifyItem(list[i])
  ELSE StringifyItem(list[i]) \o <<44, 10>> \o StringifyItems(list, i + 1)

assignmentsToEncryptedFormat(list) ==
  IF list = <<>> THEN <<91, 93>>
  ELSE <<91, 10>> \o StringifyItems(list, 1) \o <<10, 93>>

\* parseEncryptedFormat(data): the list of the assignments of the text, or
\* the error thrown.
parseEncryptedFormat(str) ==
  Once(JSONparseValue(str), LAMBDA parsed :
    IF ~parsed.ok THEN [ok |-> FALSE, error |-> <<parsed.error>>]
    ELSE IF parsed.value.type # "array"
      THEN [ok |-> FALSE, error |-> <<"TypeError">>]
    ELSE IF \E k \in DOMAIN parsed.value.value :
              \/ parsed.value.value[k].type # "object"
              \/ \E key \in {KeyGiver, KeyRecipient, KeyRecipientBio} :
                   \/ ~Prop(parsed.value.value[k], key).defined
                   \/ Prop(parsed.value.value[k], key).value.type # "string"
      THEN [ok |-> FALSE, error |-> <<"TypeError">>]
    ELSE [ok |-> TRUE,
          value |-> [k \in DOMAIN parsed.value.value |->
                       [giver |-> Prop(parsed.value.value[k], KeyGiver).value.value,
                        recipient |-> Prop(parsed.value.value[k], KeyRecipient).value.value,
                        recipientBio |-> Prop(parsed.value.value[k], KeyRecipientBio).value.value]]])

\* The version of the legacy format, and the values of dataVersion that
\* are no version of a file: "1.0", "unknown", "1.0-legacy".
LEGACY_VERSION == <<49, 46, 48>>
VersionUnknown == <<117, 110, 107, 110, 111, 119, 110>>
VersionLegacy == <<49, 46, 48, 45, 108, 101, 103, 97, 99, 121>>

\* The passphrase all participants share for a file of the v1.0 format.
SharedSecret == <<117>>

\* The file of the v2.0 format for the list and the secrets.
V2File(list, secrets) ==
  [fields |-> {"assignments", "timestamp", "version"},
   assignments |->
     [k \in { hashPassphrase(secrets[i]) : i \in DOMAIN secrets } |->
        LET i == CHOOSE i \in DOMAIN secrets : hashPassphrase(secrets[i]) = k
        IN buildRecord(list[i], secrets[i],
                       getRandomValues(2 * i, SALT_LENGTH),
                       getRandomValues(2 * i + 1, IV_LENGTH)).ciphertext],
   data |-> <<>>,
   timestamp |-> 1,
   version |-> VERSION]

\* The file of the v1.0 format for the list.
V1File(list) ==
  [fields |-> {"data", "timestamp", "version"},
   assignments |-> <<>>,
   data |-> encryptData(assignmentsToEncryptedFormat(list), SharedSecret,
                        getRandomValues(0, SALT_LENGTH),
                        getRandomValues(1, IV_LENGTH)),
   timestamp |-> 1,
   version |-> LEGACY_VERSION]

\* useState<AppState> of part_001 (lines 28-35).
InitialState ==
  [assignment |-> Null, isDataLoaded |-> FALSE, loading |-> FALSE,
   error |-> NoMessage, success |-> NoMessage, dataVersion |-> VersionUnknown]

DualInit ==
  /\ issued \in IssuedLists
  /\ assignments \in AssignmentLists
  /\ artifact \in {V2File(assignments, issued), V1File(assignments)}
  /\ encryptedFile = Null
  /\ state = InitialState
  /\ needsPassphrase = FALSE
  /\ passphraseInput = <<>>
  /\ calls = {}
  /\ failures = 0
  /\ tampered = FALSE
  /\ apc = "published"
  /\ PairingIdle /\ CipherIdle /\ GenIdle /\ MoreIdle

dualRest == <<issued, assignments, artifact, tampered, pairVars, cipherVars,
              genVars, randomCalls, encryptions, localStorage,
              generatedFileData, response, loaded, csvContent, csvError>>

\* data.version || "1.0"
VersionOf(file) ==
  IF "version" \in file.fields /\ file.version # <<>> THEN file.version
                                                        ELSE LEGACY_VERSION

\* const isV2 = version === "2.0"
IsV2VersionAlways(version) == TRUE
IsV2Version(version) == version = VERSION

FoundV2Message ==
  <<"Secret Santa data found! Enter your personal passphrase to see your assignment.">>
FoundV1Message ==
  <<"Secret Santa data found! Please enter the shared passphrase to access assignments.">>

\* loadExistingData() of part_001 after the await (lines 58-81): the file
\* was fetched, or there is none.
DualLoadDone ==
  /\ apc = "loading"
  /\ \E found \in BOOLEAN :
       IF found
         THEN /\ encryptedFile' = artifact
              /\ needsPassphrase' = TRUE
              /\ state' = [state EXCEPT
                             !.loading = FALSE,
                             !.dataVersion = VersionOf(artifact),
                             !.success = IF IsV2Version(VersionOf(artifact))
                                           THEN FoundV2Message
                                           ELSE FoundV1Message]
         ELSE /\ encryptedFile' = encryptedFile
              /\ needsPassphrase' = needsPassphrase
              /\ state' = [state EXCEPT !.loading = FALSE,
                                        !.error = NoDataError]
  /\ apc' = "prompt"
  /\ UNCHANGED <<passphraseInput, calls, failures, legacyAssignments, pending,
                 issued, assignments, artifact, tampered, pairVars, cipherVars,
                 genVars, randomCalls, encryptions, localStorage,
                 generatedFileData, response, loaded, csvContent, csvError>>

\* The try block of handlePassphraseSubmit of part_001 (lines 117-171):
\* the lookup of the v2.0 format, or the decryption of the whole list.
DualRecover(file, pass) ==
  IF IsV2Version(VersionOf(file))
    THEN IF "assignments" \notin file.fields
           THEN [kind |-> "threw", error |-> FindError(<<"TypeError">>),
                 decryptCalls |-> 0]
           ELSE Recover(file.assignments, pass)
    ELSE IF "data" \notin file.fields
      THEN [kind |-> "threw", error |-> DecryptError("TypeError"),
            decryptCalls |-> 1]
    ELSE Once(decryptData(file.data, pass), LAMBDA decryptedData :
           IF ~decryptedData.ok
             THEN [kind |-> "threw", error |-> decryptedData.error,
                   decryptCalls |-> 1]
             ELSE Once(parseEncryptedFormat(decryptedData.value), LAMBDA list :
                    IF list.ok
                      THEN [kind |-> "legacy", value |-> list.value,
                            decryptCalls |-> 1]
                      ELSE [kind |-> "threw", error |-> list.error,
                            decryptCalls |-> 1]))

\* handlePassphraseSubmit of part_001 up to its await (lines 94-115).
DualSubmit ==
  /\ apc = "prompt" /\ PromptShown
  /\ failures <= MaxFailures
  /\ IF trim(passphraseInput) = <<>>
       THEN state' = [state EXCEPT !.error = EnterPassphraseError]
            /\ apc' = apc /\ pending' = pending
       ELSE IF encryptedFile = Null
         THEN state' = [state EXCEPT !.error = NoEncryptedDataError]
              /\ apc' = apc /\ pending' = pending
         ELSE state' = [state EXCEPT !.loading = TRUE, !.error = NoMessage]
              /\ apc' = "submitting"
              /\ pending' = DualRecover(encryptedFile, passphraseInput)
  /\ UNCHANGED <<encryptedFile, needsPassphrase, passphraseInput, calls,
                 failures, legacyAssignments, dualRest>>

WelcomeMessage(giver) ==
  <<"Welcome ">> \o giver \o <<"! Here's your Secret Santa assignment.">>
LegacyLoadedMessage ==
  <<"Secret Santa data loaded successfully! Now enter your name to find your assignment.">>

\* handlePassphraseSubmit of part_001 after the await (lines 125-181).
DualSubmitDone ==
  /\ apc = "submitting"
  /\ pending' = <<>>
  /\ apc' = "prompt"
  /\ \E r \in {pending} :
        /\ calls' = calls \cup {[candidate |-> passphraseInput, outcome |-> r]}
        /\ CASE r.kind = "not_found" ->
                  /\ state' = FailedState(state, NotFoundError)
                  /\ needsPassphrase' = needsPassphrase
                  /\ legacyAssignments' = legacyAssignments
                  /\ failures' = failures + 1
             [] r.kind = "assignment" ->
                  /\ state' = [state EXCEPT
                                 !.assignment = [isNull |-> FALSE,
                                                 giver |-> r.value.giver,
                                                 recipient |-> r.value.recipient,
                                                 recipientBio |-> r.value.recipientBio],
                                 !.isDataLoaded = TRUE,
                                 !.loading = FALSE,
                                 !.success = WelcomeMessage(r.value.giver)]
                  /\ needsPassphrase' = FALSE
                  /\ legacyAssignments' = legacyAssignments
                  /\ failures' = failures
             [] r.kind = "legacy" ->
                  /\ state' = [state EXCEPT
                                 !.loading = FALSE,
                                 !.success = LegacyLoadedMessage,
                                 !.dataVersion = VersionLegacy]
                  /\ needsPassphrase' = FALSE
                  /\ legacyAssignments' = r.value
                  /\ failures' = failures
             [] r.kind = "threw" ->
                  /\ state' = FailedState(state, SubmitError(r.error))
                  /\ needsPassphrase' = needsPassphrase
                  /\ legacyAssignments' = legacyAssignments
                  /\ failures' = failures + 1
  /\ UNCHANGED <<encryptedFile, passphraseInput, dualRest>>

\* The names typed into the legacy lookup: A, b, e-acute after a space, Z,
\* nothing.
TypedNames == { <<65>>, <<98>>, <<32, 233>>, <<90>>, <<>> }

\* assignments.find((a) => a.giver.toLowerCase() === name.toLowerCase())
FindGiver(list, name) ==
  Once({ k \in DOMAIN list : LowerCased(list[k].giver) = LowerCased(name) },
       LAMBDA ks : IF ks = {} THEN 0
                   ELSE CHOOSE k \in ks : \A m \in ks : k <= m)

\* handleLegacyLookup(lookupName) of the name form, which is rendered while
\* dataVersion is "1.0-legacy" and no assignment is shown (lines 183-223,
\* 411-413).
handleLegacyLookup ==
  /\ apc = "prompt"
  /\ state.dataVersion = VersionLegacy /\ state.assignment = Null
  /\ \E lookupName \in TypedNames :
       IF trim(lookupName) = <<>>
         THEN state' = [state EXCEPT
                          !.error = <<"Please enter a name to look up">>]
       ELSE IF legacyAssignments = <<>>
         THEN state' = [state EXCEPT
                          !.error = <<"No assignment data available">>]
       ELSE LET k == FindGiver(legacyAssignments, trim(lookupName))
            IN IF k # 0
                 THEN state' = [state EXCEPT
                                  !.assignment =
                                     [isNull |-> FALSE,
                                      giver |-> legacyAssignments[k].giver,
                                      recipient |-> legacyAssignments[k].recipient,
                                      recipientBio |-> legacyAssignments[k].recipientBio],
                                  !.isDataLoaded = TRUE,
                                  !.error = NoMessage,
                                  !.success = <<"Found assignment for ">>
                                              \o legacyAssignments[k].giver
                                              \o <<"!">>]
                 ELSE state' = [state EXCEPT
                                  !.error = <<"No assignment found for \"">>
                                            \o trim(lookupName)
                                            \o <<"\". Please check the spelling or contact your organizer.">>,
                                  !.success = NoMessage]
  /\ UNCHANGED <<encryptedFile, needsPassphrase, passphraseInput, calls,
                 failures, apc, legacyAssignments, pending, dualRest>>

\* resetApp() of the button of the assignment card (lines 291-305,
\* 436-447).
resetApp ==
  /\ apc = "prompt"
  /\ state.assignment # Null
  /\ state' = InitialState
  /\ passphraseInput' = <<>>
  /\ needsPassphrase' = FALSE
  /\ encryptedFile' = Null
  /\ legacyAssignments' = <<>>
  /\ UNCHANGED <<calls, failures, apc, pending, dualRest>>

DualNext ==
  \/ loadExistingData \/ DualLoadDone \/ setPassphraseInput \/ DualSubmit
  \/ DualSubmitDone \/ handleLegacyLookup \/ resetApp

DualSpec == DualInit /\ [][DualNext]_vars

C27_ResetAllowsRetry ==
  [][resetApp => (needsPassphrase' /\ ~state'.isDataLoaded /\ ~state'.loading
                  /\ encryptedFile' # Null)]_vars

====
